---- MODULE Spec2Model ----
(***************************************************************************)
(* Model of the RFQ / quotation backend (stm-be).                          *)
(*                                                                         *)
(* The MongoDB collections are functions from document ids to records.    *)
(* Requests that are checked for interleavings are split into one step    *)
(* per store access (pc / loc per request slot); requests that are only   *)
(* checked one at a time are one action per handler.                       *)
(***************************************************************************)
EXTENDS Integers, Sequences, FiniteSets, TLC

\* ------------------------------------------------------------------ bounds
NumProcs == 2          \* request slots that may run concurrently
MaxRfqs == 2           \* RFQ documents ever created
MaxHeaders == 2        \* quotation headers ever created
MaxOffers == 2         \* quotation offers ever created
MaxItems == 3          \* offer items ever created
QuoteHeaders == 1      \* quotation headers of the quotation specifications
MaxSelected == 1       \* item ids a set-status request selects
FlowRfqs == 1          \* RFQs of the workflow specification
MaxTick == 5           \* last instant of the model clock
TicksPerDay == 2       \* instants per day: 0 is 00:00:00.000, the others later
MaxRfqItems == 2       \* RFQ items an item request may still add
MaxRevOffers == 3      \* offers ever created in the revision specification
MaxImages == 1         \* notes images ever uploaded

\* ------------------------------------------------------------ value spaces
Procs == 1..NumProcs
NoId == 0
Users == {"u1", "u2", "u3"}
NoUser == "none"
NoTime == -1

\* first instant of the model clock: 30 December 2026, 00:00
Epoch == <<2026, 12, 30>>

\* ----------------------------------------------------------- JS Date model
DaysInMonth == <<31, 28, 31, 30, 31, 30, 31, 31, 30, 31, 30, 31>>

RECURSIVE Normalize(_, _, _)
Normalize(y, m, d) ==
    IF d <= DaysInMonth[m] THEN <<y, m, d>>
    ELSE IF m = 12 THEN Normalize(y + 1, 1, d - DaysInMonth[m])
    ELSE Normalize(y, m + 1, d - DaysInMonth[m])

\* <<year, month, day, time of day>> of clock instant t
DateOf(t) ==
    LET ymd == Normalize(Epoch[1], Epoch[2], Epoch[3] + (t \div TicksPerDay))
    IN  <<ymd[1], ymd[2], ymd[3], t % TicksPerDay>>

DateLE(a, b) ==
    \/ a[1] < b[1]
    \/ a[1] = b[1] /\ a[2] < b[2]
    \/ a[1] = b[1] /\ a[2] = b[2] /\ a[3] < b[3]
    \/ a[1] = b[1] /\ a[2] = b[2] /\ a[3] = b[3] /\ a[4] <= b[4]

\* new Date(year, month - 1, 1)
StartOfMonth(y, m) == <<y, m, 1, 0>>
\* new Date(year, month, 0): the last day of the month, at 00:00:00.000
EndOfMonth(y, m) == <<y, m, DaysInMonth[m], 0>>

\* createdAt: { $gte: startOfMonth, $lte: endOfMonth }
CreatedInRange(c, y, m) ==
    /\ DateLE(StartOfMonth(y, m), DateOf(c))
    /\ DateLE(DateOf(c), EndOfMonth(y, m))

\* ------------------------------------------------------- document numbers
RomanMonths == <<"I", "II", "III", "IV", "V", "VI",
                 "VII", "VIII", "IX", "X", "XI", "XII">>

\* `${n}/${type}/STM/${romanMonth}/${year}`
FormatNumber(n, type, m, y) ==
    [n |-> n, type |-> type, org |-> "STM", roman |-> RomanMonths[m], year |-> y]

NoNumber == [n |-> 0, type |-> "", org |-> "", roman |-> "", year |-> 0]

\* match of ^(\d+)/type/STM/roman/year$ followed by parseInt; -1 when no match
MatchNumber(num, type, m, y) ==
    IF /\ num.type = type
       /\ num.org = "STM"
       /\ num.roman = RomanMonths[m]
       /\ num.year = y
    THEN num.n
    ELSE -1

RECURSIVE SetMax(_)
SetMax(S) ==
    IF S = {} THEN 0
    ELSE LET x == CHOOSE v \in S : TRUE
             r == SetMax(S \ {x})
         IN  IF x > r THEN x ELSE r

VARIABLES
    now,        \* the clock (new Date())
    rfqs,       \* RFQ collection: id -> document
    rfqItems,   \* RFQItem collection
    headers,    \* QuotationHeader collection
    offers,     \* QuotationOffer collection
    items,      \* OfferItem collection
    ids,        \* last ObjectId handed out per collection
    notifications, \* Notification collection
    imageDocs,  \* NotesImage collection: the ids of the stored documents
    pc,         \* position of each request slot
    loc,        \* locals of each request slot
    last        \* the last request completed by a one-at-a-time handler

vars == <<now, rfqs, rfqItems, headers, offers, items, ids, notifications,
         imageDocs, pc, loc, last>>

stores == <<rfqs, rfqItems, headers, offers, items, ids>>

\* ------------------------------------------------------------ collections
Ext(f, k, v) == [x \in (DOMAIN f) \cup {k} |-> IF x = k THEN v ELSE f[x]]
Del(f, K) == [x \in (DOMAIN f) \ K |-> f[x]]
Empty == [x \in {} |-> 0]

\* addNotification(...) once per element of docs: Notification documents
\* saved after the n0 there are already
NewNotification(u, title) == [userId |-> u, title |-> title]
AddNotifications(ns, n0, docs) ==
    [i \in (DOMAIN ns) \cup ((n0 + 1)..(n0 + Len(docs))) |->
       IF i \in DOMAIN ns THEN ns[i] ELSE docs[i - n0]]

\* a collection without the unique index: every save is accepted
UniqueIndexOff(values, v) == TRUE

\* unique index on a field: the save is accepted only when no stored
\* document already carries the value
UniqueIndexOk(values, v) == v \notin values

RfqNumbers == {rfqs[r].rfqNumber : r \in DOMAIN rfqs}
HeaderNumbers == {headers[h].quotationNumber : h \in DOMAIN headers}
OfferNumbers == {offers[o].offerNumber : o \in DOMAIN offers}

\* ------------------------------------------------------ request-slot state
NoPlan == [err |-> TRUE, hdr |-> NoId,
           offerNumber |-> [qn |-> NoNumber, slot |-> 0, rev |-> 0],
           slot |-> 0, revision |-> 0, parent |-> NoId]

Loc0 == [op |-> "none", err |-> "none", cand |-> NoNumber, rfq |-> NoId,
         actor |-> NoUser, hdr |-> NoId, qn |-> NoNumber, parent |-> NoId,
         plan |-> NoPlan, t |-> 0, notes |-> "", offerItems |-> << >>,
         newItems |-> << >>, offer |-> NoId, imageIds |-> {},
         loaded |-> << >>, hooked |-> << >>,
         uf |-> [requesterId |-> NoUser, approverId |-> NoUser,
                 creatorId |-> NoUser]]

Last0 ==
    [op |-> "none", res |-> "none", hdr |-> NoId, offer |-> NoId,
     data |-> {}]

Idle(p) == pc[p] = "idle"

\* the request of slot p goes on at position next with locals l
Continue(p, next, l) ==
    /\ pc' = [pc EXCEPT ![p] = next]
    /\ loc' = [loc EXCEPT ![p] = l]
    /\ UNCHANGED last

\* the request of slot p ends with its response
Finish(p) ==
    /\ pc' = [pc EXCEPT ![p] = "idle"]
    /\ loc' = [loc EXCEPT ![p] = Loc0]
    /\ UNCHANGED last

\* an error is thrown in the request of slot p: control passes to the catch
\* block of its handler
Throw(p, err) ==
    Continue(p, "catch", [Loc0 EXCEPT !.op = loc[p].op, !.err = err,
                                      !.hdr = loc[p].hdr])

\* catch (error) { res.status(...).json(...) }: nothing but the response
Catch(p) ==
    /\ pc[p] = "catch"
    /\ Finish(p)
    /\ UNCHANGED <<now, imageDocs, notifications, stores>>

\* ------------------------------------------------------ document shapes
\* approvals is a history field: the number of approve requests on the RFQ
\* that were answered with success
NewRfq(num, t, requester, approver, creator) ==
    [rfqNumber |-> num, createdAt |-> t, submittedAt |-> t,
     requesterId |-> requester, approverId |-> approver,
     quotationCreatorId |-> creator,
     status |-> "pending", isApproved |-> FALSE,
     approvalDecision |-> "null", approvalNotes |-> "undef",
     approvedAt |-> NoTime, rejectedAt |-> NoTime,
     quotationId |-> NoId, quotationCreatedAt |-> NoTime,
     approvals |-> 0]

\* fromRfq is a history field: the RFQ named by the request that created the
\* header (NoId for a quotation created without an RFQ)
NewHeader(num, t, requester, approver, creator, fromRfq) ==
    [quotationNumber |-> num, createdAt |-> t,
     requesterId |-> requester, approverId |-> approver, creatorId |-> creator,
     status |-> [type |-> "open", reason |-> "undef"],
     selectedOfferId |-> NoId, selectedOfferItemIds |-> {},
     fromRfq |-> fromRfq]

\* `${quotationNumber}-${slot}` with an optional `-Rev${rev}` suffix
\* (rev = 0: no suffix)
OfferNumber(qn, slot, rev) == [qn |-> qn, slot |-> slot, rev |-> rev]
NoOfferNumber == OfferNumber(NoNumber, 0, 0)

\* lineage is a history field: the id of the original the offer descends
\* from, which is its own id for an original
NewOffer(h, num, slot, revision, parent) ==
    [quotationHeaderId |-> h, offerNumber |-> num,
     offerNumberInQuotation |-> slot, revision |-> revision,
     parentQuotationId |-> parent,
     totalPrice |-> 0, totalNetto |-> 0, totalDiscount |-> 0,
     isFullyAccepted |-> FALSE, isPartiallyAccepted |-> FALSE,
     acceptedItemsCount |-> 0, totalItemsCount |-> 0,
     notesImages |-> << >>, lineage |-> NoId]

\* the lineage of the offer saved under id o with the given parent
LineageOf(offs, parent, o) ==
    IF parent = NoId THEN o
    ELSE IF parent \in DOMAIN offs THEN offs[parent].lineage
    ELSE NoId

\* ------------------------------------------------------ generateRFQNumber
RfqDocs == {[num |-> rfqs[r].rfqNumber, createdAt |-> rfqs[r].createdAt] :
            r \in DOMAIN rfqs}
HeaderDocs == {[num |-> headers[h].quotationNumber,
                createdAt |-> headers[h].createdAt] : h \in DOMAIN headers}

\* highest leading integer among the documents the scan of the month returns
ScanHighest(docs, type, t) ==
    LET y == DateOf(t)[1]
        m == DateOf(t)[2]
        found == {d \in docs : CreatedInRange(d.createdAt, y, m)}
    IN  SetMax({MatchNumber(d.num, type, m, y) : d \in found} \cup {0})

\* the candidate number: highest + 1, formatted for the month of instant t
NextNumber(docs, type, t) ==
    FormatNumber(ScanHighest(docs, type, t) + 1, type,
                 DateOf(t)[2], DateOf(t)[1])

InFlight(op) == Cardinality({q \in Procs : pc[q] /= "idle" /\ loc[q].op = op})

\* createRFQ(rfqData) is called
StartCreateRFQ(p) ==
    /\ Idle(p)
    /\ ids.rfq + InFlight("createRFQ") < MaxRfqs
    /\ Continue(p, "rfqScan", [Loc0 EXCEPT !.op = "createRFQ"])
    /\ UNCHANGED <<now, imageDocs, notifications, stores>>

\* generateRFQNumber: new Date(), RFQ.find of the month, highest + 1
RfqScan(p) ==
    /\ pc[p] = "rfqScan"
    /\ Continue(p, "rfqVerify",
                [loc[p] EXCEPT !.cand = NextNumber(RfqDocs, "RFQ", now),
                               !.t = now])
    /\ UNCHANGED <<now, imageDocs, notifications, stores>>

\* generateRFQNumber: RFQ.findOne({ rfqNumber }); recursive call when found
RfqVerify(p) ==
    /\ pc[p] = "rfqVerify"
    /\ Continue(p, IF loc[p].cand \in RfqNumbers THEN "rfqScan" ELSE "rfqSave",
                loc[p])
    /\ UNCHANGED <<now, imageDocs, notifications, stores>>

\* createRFQ: rfq.save() under the unique index on rfqNumber
RfqSave(p) ==
    /\ pc[p] = "rfqSave"
    /\ IF UniqueIndexOk(RfqNumbers, loc[p].cand)
       THEN /\ rfqs' = Ext(rfqs, ids.rfq + 1,
                           IF loc[p].op = "postRfq"
                           THEN NewRfq(loc[p].cand, now, loc[p].uf.requesterId,
                                       loc[p].uf.approverId,
                                       loc[p].uf.creatorId)
                           ELSE NewRfq(loc[p].cand, now, "u1", "u2", "u3"))
            /\ ids' = [ids EXCEPT !.rfq = @ + 1]
            /\ IF loc[p].op = "postRfq"
               THEN Continue(p, "prItem", [loc[p] EXCEPT !.rfq = ids.rfq + 1])
               ELSE Finish(p)
       ELSE /\ Throw(p, "duplicateKey")
            /\ UNCHANGED <<rfqs, ids>>
    /\ UNCHANGED <<now, imageDocs, notifications, rfqItems, headers,
                   offers, items>>

\* ------------------------------------------------ generateQuotationNumber
\* createQuotationHeader(headerData) is called
StartCreateHeader(p) ==
    /\ Idle(p)
    /\ ids.header + InFlight("createHeader") + InFlight("convert") < MaxHeaders
    /\ Continue(p, "hdrScan",
                [Loc0 EXCEPT !.op = "createHeader", !.actor = "u3",
                             !.uf = [requesterId |-> "u3", approverId |-> "u3",
                                     creatorId |-> "u3"]])
    /\ UNCHANGED <<now, imageDocs, notifications, stores>>

\* generateQuotationNumber: new Date(), QuotationHeader.find, highest + 1
HdrScan(p) ==
    /\ pc[p] = "hdrScan"
    /\ Continue(p, "hdrVerify",
                [loc[p] EXCEPT !.cand = NextNumber(HeaderDocs, "QUO", now),
                               !.t = now])
    /\ UNCHANGED <<now, imageDocs, notifications, stores>>

\* generateQuotationNumber: QuotationHeader.findOne({ quotationNumber })
HdrVerify(p) ==
    /\ pc[p] = "hdrVerify"
    /\ Continue(p, IF loc[p].cand \in HeaderNumbers THEN "hdrScan"
                   ELSE "hdrSave", loc[p])
    /\ UNCHANGED <<now, imageDocs, notifications, stores>>

\* createQuotationHeader: header.save() under the unique index on
\* quotationNumber; a conversion goes on to create the first offer
HdrSave(p) ==
    /\ pc[p] = "hdrSave"
    /\ IF UniqueIndexOk(HeaderNumbers, loc[p].cand)
       THEN /\ headers' = Ext(headers, ids.header + 1,
                              NewHeader(loc[p].cand, now, loc[p].uf.requesterId,
                                        loc[p].uf.approverId,
                                        loc[p].uf.creatorId, loc[p].rfq))
            /\ ids' = [ids EXCEPT !.header = @ + 1]
            /\ IF loc[p].op = "convert"
               THEN Continue(p, "cvOffer",
                             [loc[p] EXCEPT !.hdr = ids.header + 1])
               ELSE Finish(p)
       ELSE /\ Throw(p, "duplicateKey")
            /\ UNCHANGED <<headers, ids>>
    /\ UNCHANGED <<now, imageDocs, notifications, rfqs, rfqItems, offers,
                   items>>

\* ---------------------------------- generateOfferNumber / createQuotationOffer
HeaderByNumberIn(hs, qn) == {h \in DOMAIN hs : hs[h].quotationNumber = qn}
HeaderByNumber(qn) == HeaderByNumberIn(headers, qn)

\* offerNumber.split('-Rev')[0]
BaseOfferNumber(num) == [num EXCEPT !.rev = 0]

\* what createQuotationOffer and generateOfferNumber read and compute before
\* the offer is saved: header, revision, slot and offer number
OfferPlanIn(hs, qn, parent) ==
    IF HeaderByNumberIn(hs, qn) = {} THEN NoPlan
    ELSE LET h == CHOOSE x \in HeaderByNumberIn(hs, qn) : TRUE IN
      IF parent /= NoId
      THEN IF parent \notin DOMAIN offers THEN NoPlan
           ELSE LET po == offers[parent]
                    existingRevisions ==
                      {o \in DOMAIN offers :
                         /\ offers[o].quotationHeaderId = h
                         /\ offers[o].offerNumberInQuotation =
                              po.offerNumberInQuotation
                         /\ offers[o].revision > 0}
                    rev == SetMax({offers[o].revision :
                                     o \in existingRevisions}) + 1
                IN  [err |-> FALSE, hdr |-> h,
                     offerNumber |->
                       [BaseOfferNumber(po.offerNumber) EXCEPT !.rev = rev],
                     slot |-> po.offerNumberInQuotation,
                     revision |-> po.revision + 1,
                     parent |-> parent]
      ELSE LET existingOffers ==
                 {o \in DOMAIN offers : /\ offers[o].quotationHeaderId = h
                                        /\ offers[o].revision = 0}
               slot == SetMax({offers[o].offerNumberInQuotation :
                                 o \in existingOffers}) + 1
           IN  [err |-> FALSE, hdr |-> h,
                offerNumber |-> OfferNumber(qn, slot, 0),
                slot |-> slot, revision |-> 0, parent |-> NoId]

OfferPlan(qn, parent) == OfferPlanIn(headers, qn, parent)

\* createQuotationOffer(header.quotationNumber, offerData) is called for the
\* existing header h; parent /= NoId is offerData.isRevision with parentOfferId
StartCreateOffer(p, h, parent) ==
    /\ Idle(p)
    /\ ids.offer + InFlight("createOffer") + InFlight("convert") < MaxOffers
    /\ h \in DOMAIN headers
    /\ Continue(p, "offerScan",
                [Loc0 EXCEPT !.op = "createOffer",
                             !.qn = headers[h].quotationNumber,
                             !.parent = parent])
    /\ UNCHANGED <<now, imageDocs, notifications, stores>>

\* the reads up to the computation of the offer number
OfferScan(p) ==
    /\ pc[p] = "offerScan"
    /\ LET plan == OfferPlan(loc[p].qn, loc[p].parent) IN
         IF plan.err
         THEN Throw(p, "notFound")
         ELSE Continue(p, "offerVerify", [loc[p] EXCEPT !.plan = plan])
    /\ UNCHANGED <<now, imageDocs, notifications, stores>>

\* QuotationOffer.findOne({ offerNumber }): throws when it exists
OfferVerify(p) ==
    /\ pc[p] = "offerVerify"
    /\ IF loc[p].plan.offerNumber \in OfferNumbers
       THEN Throw(p, "alreadyExists")
       ELSE Continue(p, "offerSave", loc[p])
    /\ UNCHANGED <<now, imageDocs, notifications, stores>>

\* offer.save() under the unique index on offerNumber
OfferSave(p) ==
    /\ pc[p] = "offerSave"
    /\ LET plan == loc[p].plan IN
       IF UniqueIndexOk(OfferNumbers, plan.offerNumber)
       THEN /\ offers' = Ext(offers, ids.offer + 1,
                             [NewOffer(plan.hdr, plan.offerNumber, plan.slot,
                                       plan.revision, plan.parent)
                                EXCEPT !.lineage =
                                   LineageOf(offers, plan.parent,
                                             ids.offer + 1)])
            /\ ids' = [ids EXCEPT !.offer = @ + 1]
            /\ Finish(p)
       ELSE /\ Throw(p, "duplicateKey")
            /\ UNCHANGED <<offers, ids>>
    /\ UNCHANGED <<now, imageDocs, notifications, rfqs, rfqItems, headers,
                   items>>

\* the clock advances
Tick ==
    /\ now < MaxTick
    /\ now' = now + 1
    /\ UNCHANGED <<notifications, imageDocs, stores, pc, loc, last>>

\* ------------------------------------------------------------ empty system
InitEmpty ==
    /\ now = 0
    /\ rfqs = Empty
    /\ rfqItems = Empty
    /\ headers = Empty
    /\ offers = Empty
    /\ items = Empty
    /\ ids = [rfq |-> 0, rfqItem |-> 0, header |-> 0, offer |-> 0, item |-> 0,
              notification |-> 0, image |-> 0]
    /\ notifications = Empty
    /\ imageDocs = {}
    /\ pc = [p \in Procs |-> "idle"]
    /\ loc = [p \in Procs |-> Loc0]
    /\ last = Last0

\* ------------------------------------------- concurrent document creation
NumberStep(p) ==
    \/ RfqScan(p) \/ RfqVerify(p) \/ RfqSave(p)
    \/ HdrScan(p) \/ HdrVerify(p) \/ HdrSave(p)
    \/ OfferScan(p) \/ OfferVerify(p) \/ OfferSave(p)
    \/ Catch(p)

CreateOfferCall(p) ==
    \E h \in DOMAIN headers, parent \in {NoId} \cup DOMAIN offers :
       StartCreateOffer(p, h, parent)

NextNumbering ==
    \E p \in Procs :
       \/ StartCreateRFQ(p)
       \/ StartCreateHeader(p)
       \/ CreateOfferCall(p)
       \/ NumberStep(p)

SpecNumbering == InitEmpty /\ [][NextNumbering]_vars

\* one creation at a time, on any day
NoneInProgress == \A q \in Procs : Idle(q)

SerialCreateRFQ(p) == NoneInProgress /\ StartCreateRFQ(p)
SerialCreateHeader(p) == NoneInProgress /\ StartCreateHeader(p)

SerialStep(p) ==
    \/ RfqScan(p) \/ RfqVerify(p) \/ RfqSave(p)
    \/ HdrScan(p) \/ HdrVerify(p) \/ HdrSave(p)

NextSerial ==
    \/ Tick
    \/ \E p \in Procs :
          \/ SerialCreateRFQ(p)
          \/ SerialCreateHeader(p)
          \/ SerialStep(p)

SpecSerial == InitEmpty /\ [][NextSerial]_vars

\* ------------------------------------------------------------ permissions
\* the permissions held by the users of the model
UserPerms ==
    [u \in Users |->
       CASE u = "u1" -> {"quotation_requester", "quotation_edit",
                         "quotation_view"}
         [] u = "u2" -> {"approve_rfq", "quotation_create"}
         [] u = "u3" -> {"approve_rfq", "quotation_create", "quotation_edit",
                         "quotation_delete", "quotation_view"}]

\* authorize([...]): the user holds every required permission
Authorized(actor, required) == required \subseteq UserPerms[actor]

\* ------------------------------------------------------------- item shapes
NewRfqItem(r, n, data) ==
    [rfqId |-> r, itemNumber |-> n, price |-> data.price,
     priceNet |-> data.priceNet]

NewOfferItem(o, n, data) ==
    [quotationOfferId |-> o, itemNumber |-> n, price |-> data.price,
     netto |-> data.netto, isAccepted |-> FALSE, acceptedAt |-> NoTime,
     acceptedBy |-> NoUser]

\* item payloads of an RFQ creation request
RfqItemPayloads ==
    { << [price |-> 3, priceNet |-> 2] >> }

\* offerData.parentOfferId values of a request (NoId: not a revision)
ParentInputs == {NoId, 1}

RECURSIVE SumOver(_, _, _)
SumOver(f, S, field) ==
    IF S = {} THEN 0
    ELSE LET x == CHOOSE v \in S : TRUE
         IN  f[x][field] + SumOver(f, S \ {x}, field)

ItemsOf(its, o) == {i \in DOMAIN its : its[i].quotationOfferId = o}
RfqItemsOf(r) == {i \in DOMAIN rfqItems : rfqItems[i].rfqId = r}

\* quotationOfferSchema.pre('save') of an offer that is not new: the totals
\* of offer document off, computed from the items stored for offer o
Recalculated(off, o, its) ==
    LET mine == ItemsOf(its, o)
        total == Cardinality(mine)
        accepted == Cardinality({i \in mine : its[i].isAccepted})
        price == SumOver(its, mine, "price")
        netto == SumOver(its, mine, "netto")
    IN  [off EXCEPT !.totalItemsCount = total,
                    !.acceptedItemsCount = accepted,
                    !.totalPrice = price,
                    !.totalNetto = netto,
                    !.totalDiscount = price - netto,
                    !.isFullyAccepted = (accepted = total /\ total > 0),
                    !.isPartiallyAccepted = (accepted > 0 /\ accepted < total)]

\* the ids of the items in the order in which populate('items') and
\* find().sort({ itemNumber: 1 }) return them
RECURSIVE SortedBy(_, _, _)
SortedBy(f, S, field) ==
    IF S = {} THEN << >>
    ELSE LET x == CHOOSE v \in S :
                    \A w \in S : \/ f[v][field] < f[w][field]
                                 \/ f[v][field] = f[w][field] /\ v <= w
         IN  <<x>> \o SortedBy(f, S \ {x}, field)

\* [...new Set(values)]: the values in the order of their first occurrence
RECURSIVE SetOrder(_)
SetOrder(values) ==
    IF values = << >> THEN << >>
    ELSE LET rest == SetOrder(SubSeq(values, 1, Len(values) - 1))
             x == values[Len(values)]
         IN  IF \E k \in 1..Len(rest) : rest[k] = x THEN rest
             ELSE Append(rest, x)

\* populate('notesImages'): the elements whose NotesImage document is
\* stored, in their order
RECURSIVE Populated(_, _)
Populated(refs, docs) ==
    IF refs = << >> THEN << >>
    ELSE LET rest == Populated(SubSeq(refs, 1, Len(refs) - 1), docs)
             x == refs[Len(refs)]
         IN  IF x \in docs THEN Append(rest, x) ELSE rest

\* cleanupOrphanedImages(offerIds), first query: the images of the offers
\* to delete
AllImageIds(offerIds) ==
    UNION { {offers[o].notesImages[k] : k \in 1..Len(offers[o].notesImages)} :
              o \in offerIds \cap DOMAIN offers }

\* cleanupOrphanedImages(offerIds), second query and filter: the images of
\* allImageIds that no offer outside offerIds holds
OrphanedImageIds(offerIds, allImageIds) ==
    LET stillUsedImageIds ==
          UNION { {offers[o].notesImages[k] :
                     k \in 1..Len(offers[o].notesImages)} :
                  o \in {x \in (DOMAIN offers) \ offerIds :
                           \E k \in 1..Len(offers[x].notesImages) :
                              offers[x].notesImages[k] \in allImageIds} }
    IN  allImageIds \ stillUsedImageIds

\* cleanupOrphanedImages(offerIds) run without interruption: the NotesImage
\* collection after it
CleanedUp(offerIds) ==
    imageDocs \ OrphanedImageIds(offerIds, AllImageIds(offerIds))

\* the notesImages a new offer is saved with. Of a revision: the _id
\* objects of the parent's images, each an object of its own, then the
\* image ids of the request, which are strings; the Set keeps one of each
\* value that is the same object or the same string. The schema casts
\* every element to an ObjectId when the offer is saved
MergedImages(parent, images) ==
    IF parent = NoId THEN images
    ELSE LET old == Populated(offers[parent].notesImages, imageDocs)
             parentNotesImages ==
               [k \in 1..Len(old) |->
                  [type |-> "ObjectId", hex |-> old[k], object |-> k]]
             newNotesImages ==
               [k \in 1..Len(images) |->
                  [type |-> "string", hex |-> images[k], object |-> 0]]
             allNotesImages == SetOrder(parentNotesImages \o newNotesImages)
         IN  [k \in 1..Len(allNotesImages) |-> allNotesImages[k].hex]

\* createQuotationOffer(qn, offerData), run without interruption with hs
\* the stored headers: the offer, its items numbered 1..n, and the second
\* offer.save() that computes the totals; res tells how the call ended
CreateOfferImagesIn(hs, qn, parent, itemData, images) ==
    LET plan == OfferPlanIn(hs, qn, parent)
        o == ids.offer + 1
        n == Len(itemData)
        offers1 == Ext(offers, o,
                       [NewOffer(plan.hdr, plan.offerNumber, plan.slot,
                                 plan.revision, plan.parent)
                          EXCEPT !.notesImages =
                                    MergedImages(plan.parent, images),
                                 !.lineage =
                                    LineageOf(offers, plan.parent, o)])
        items1 == [i \in (DOMAIN items) \cup ((ids.item + 1)..(ids.item + n)) |->
                     IF i \in DOMAIN items THEN items[i]
                     ELSE NewOfferItem(o, i - ids.item, itemData[i - ids.item])]
        unchanged == [offers |-> offers, items |-> items, ids |-> ids,
                      offer |-> NoId]
    IN  IF plan.err THEN unchanged @@ [res |-> "notFound"]
        ELSE IF plan.offerNumber \in OfferNumbers
                \/ ~UniqueIndexOk(OfferNumbers, plan.offerNumber)
        THEN unchanged @@ [res |-> "alreadyExists"]
        ELSE [res |-> "created",
              offer |-> o,
              offers |-> IF n > 0
                         THEN [offers1 EXCEPT ![o] =
                                 Recalculated(offers1[o], o, items1)]
                         ELSE offers1,
              items |-> items1,
              ids |-> [ids EXCEPT !.offer = o, !.item = @ + n]]

\* createQuotationOffer for offerData without notesImages
CreateOfferIn(hs, qn, parent, itemData) ==
    CreateOfferImagesIn(hs, qn, parent, itemData, << >>)

CreateOfferResult(qn, parent, itemData) ==
    CreateOfferIn(headers, qn, parent, itemData)

\* --------------------------------------------------------- POST /api/rfq
\* the whole handler: validation of approver and quotation creator,
\* createRFQ and one createRFQItem per item
PostRfq(actor, approver, creator, itemData) ==
    /\ ids.rfq < FlowRfqs
    /\ Authorized(actor, {"quotation_requester"})
    /\ "approve_rfq" \in UserPerms[approver]
    /\ "quotation_create" \in UserPerms[creator]
    /\ LET cand == NextNumber(RfqDocs, "RFQ", now)
           r == ids.rfq + 1
           n == Len(itemData)
       IN  /\ cand \notin RfqNumbers
           /\ UniqueIndexOk(RfqNumbers, cand)
           /\ rfqs' = Ext(rfqs, r, NewRfq(cand, now, actor, approver, creator))
           /\ rfqItems' =
                [i \in (DOMAIN rfqItems) \cup
                       ((ids.rfqItem + 1)..(ids.rfqItem + n)) |->
                   IF i \in DOMAIN rfqItems THEN rfqItems[i]
                   ELSE NewRfqItem(r, i - ids.rfqItem, itemData[i - ids.rfqItem])]
           /\ ids' = [ids EXCEPT !.rfq = r, !.rfqItem = @ + n,
                                 !.notification = @ + 1]
           /\ notifications' =
                AddNotifications(notifications, ids.notification,
                                 << NewNotification(approver, "New RFQ Request") >>)
    /\ UNCHANGED <<now, imageDocs, headers, offers, items, pc, loc, last>>

\* ------------------------------------------- PATCH /api/rfq/:id/approve
\* authenticateToken and authorize(['approve_rfq'])
StartApprove(p, r, actor, notes) ==
    /\ Idle(p)
    /\ Authorized(actor, {"approve_rfq"})
    /\ Continue(p, "apRead",
                [Loc0 EXCEPT !.op = "approve", !.rfq = r, !.actor = actor,
                             !.notes = notes])
    /\ UNCHANGED <<now, imageDocs, notifications, stores>>

\* the guards with the status looked at before the approver
DecisionGuardStatusFirst(r, actor) ==
    IF r \notin DOMAIN rfqs THEN "notFound"
    ELSE IF rfqs[r].status /= "pending" THEN "invalidState"
    ELSE IF rfqs[r].approverId /= actor THEN "notAuthorized"
    ELSE "pass"

\* the guards both handlers evaluate on the RFQ read by RFQ.findById
DecisionGuard(r, actor) ==
    IF r \notin DOMAIN rfqs THEN "notFound"
    ELSE IF rfqs[r].approverId /= actor THEN "notAuthorized"
    ELSE IF rfqs[r].status /= "pending" THEN "invalidState"
    ELSE "pass"

ApRead(p) ==
    /\ pc[p] = "apRead"
    /\ LET g == DecisionGuard(loc[p].rfq, loc[p].actor) IN
         IF g = "pass" THEN Continue(p, "apWrite", loc[p]) ELSE Finish(p)
    /\ UNCHANGED <<now, imageDocs, notifications, stores>>

\* approveRFQ -> updateRFQ: RFQ.findByIdAndUpdate(rfqId, updateData), and
\* the success response
ApWrite(p) ==
    /\ pc[p] = "apWrite"
    /\ rfqs' = [rfqs EXCEPT ![loc[p].rfq] =
                  [@ EXCEPT !.status = "approved", !.isApproved = TRUE,
                            !.approvedAt = now, !.approvalDecision = "bid",
                            !.approvalNotes = loc[p].notes,
                            !.approvals = @ + 1]]
    /\ notifications' =
         AddNotifications(notifications, ids.notification,
            << NewNotification(rfqs[loc[p].rfq].requesterId,
                               "RFQ Approved - Bid Decision"),
               NewNotification(rfqs[loc[p].rfq].quotationCreatorId,
                               "RFQ Approved - Create Quotation") >>)
    /\ ids' = [ids EXCEPT !.notification = @ + 2]
    /\ Finish(p)
    /\ UNCHANGED <<now, imageDocs, rfqItems, headers, offers, items>>

\* -------------------------------------------- PATCH /api/rfq/:id/reject
StartReject(p, r, actor, notes) ==
    /\ Idle(p)
    /\ Authorized(actor, {"approve_rfq"})
    /\ Continue(p, "rjRead",
                [Loc0 EXCEPT !.op = "reject", !.rfq = r, !.actor = actor,
                             !.notes = notes])
    /\ UNCHANGED <<now, imageDocs, notifications, stores>>

RjRead(p) ==
    /\ pc[p] = "rjRead"
    /\ LET g == DecisionGuard(loc[p].rfq, loc[p].actor) IN
         IF g = "pass" THEN Continue(p, "rjWrite", loc[p]) ELSE Finish(p)
    /\ UNCHANGED <<now, imageDocs, notifications, stores>>

\* rejectRFQ -> updateRFQ: RFQ.findByIdAndUpdate(rfqId, updateData)
RjWrite(p) ==
    /\ pc[p] = "rjWrite"
    /\ rfqs' = [rfqs EXCEPT ![loc[p].rfq] =
                  [@ EXCEPT !.status = "rejected", !.isApproved = FALSE,
                            !.rejectedAt = now, !.approvalDecision = "no_bid",
                            !.approvalNotes = loc[p].notes]]
    /\ notifications' =
         AddNotifications(notifications, ids.notification,
            << NewNotification(rfqs[loc[p].rfq].requesterId,
                               "RFQ Rejected - No Bid Decision") >>)
    /\ ids' = [ids EXCEPT !.notification = @ + 1]
    /\ Finish(p)
    /\ UNCHANGED <<now, imageDocs, rfqItems, headers, offers, items>>

\* ------------------------------------ POST /api/quotations with an rfqId
\* items the requests in progress may still create
RECURSIVE ReservedBy(_)
ReservedBy(P) ==
    IF P = {} THEN 0
    ELSE LET q == CHOOSE x \in P : TRUE
         IN  (IF pc[q] /= "idle" /\ loc[q].op = "convert"
              THEN Cardinality({i \in DOMAIN rfqItems :
                                  rfqItems[i].rfqId = loc[q].rfq})
              ELSE 0) + ReservedBy(P \ {q})
Reserved == ReservedBy(Procs)

\* authenticateToken and authorize(['quotation_create']); parent /= NoId is
\* offerData.isRevision with offerData.parentOfferId
StartConvert(p, r, actor, parent) ==
    /\ Idle(p)
    /\ ids.header + InFlight("createHeader") + InFlight("convert") < MaxHeaders
    /\ ids.offer + InFlight("createOffer") + InFlight("convert") < MaxOffers
    /\ ids.item + Reserved + Cardinality(RfqItemsOf(r)) <= MaxItems
    /\ Authorized(actor, {"quotation_create"})
    /\ Continue(p, "cvCheck",
                [Loc0 EXCEPT !.op = "convert", !.rfq = r, !.actor = actor,
                             !.parent = parent])
    /\ UNCHANGED <<now, imageDocs, notifications, stores>>

\* the guards without the one on the RFQ's status
ConvertGuardNoStatus(r, actor) ==
    IF r \notin DOMAIN rfqs THEN "notFound"
    ELSE IF rfqs[r].quotationCreatorId /= actor THEN "notAuthorized"
    ELSE "pass"

\* the three guards on the RFQ read by RFQ.findById(rfqId)
ConvertGuard(r, actor) ==
    IF r \notin DOMAIN rfqs THEN "notFound"
    ELSE IF rfqs[r].status /= "approved" THEN "invalidState"
    ELSE IF rfqs[r].quotationCreatorId /= actor THEN "notAuthorized"
    ELSE "pass"

\* RFQ.findById(rfqId) and the three guards
CvCheck(p) ==
    /\ pc[p] = "cvCheck"
    /\ LET g == ConvertGuard(loc[p].rfq, loc[p].actor)
       IN  IF g = "pass" THEN Continue(p, "cvLoad", loc[p]) ELSE Finish(p)
    /\ UNCHANGED <<now, imageDocs, notifications, stores>>

\* the transfer with netto taken from price
TransferredItemsNoNet(r) ==
    LET order == SortedBy(rfqItems, RfqItemsOf(r), "itemNumber")
    IN  [k \in 1..Len(order) |->
           [price |-> rfqItems[order[k]].price,
            netto |-> rfqItems[order[k]].price]]

\* rfq.items.map(...): one offer item payload per RFQ item, price from
\* price and netto from priceNet
TransferredItems(r) ==
    LET order == SortedBy(rfqItems, RfqItemsOf(r), "itemNumber")
    IN  [k \in 1..Len(order) |->
           [price |-> rfqItems[order[k]].price,
            netto |-> rfqItems[order[k]].priceNet]]

\* RFQ.findById(rfqId).populate('items'): the RFQ items become the offer
\* items; RFQ.findById(rfqId): the RFQ's users become the header's users
CvLoad(p) ==
    /\ pc[p] = "cvLoad"
    /\ LET r == loc[p].rfq
       IN  Continue(p, "hdrScan",
             [loc[p] EXCEPT
                !.offerItems = TransferredItems(r),
                !.uf = [requesterId |-> rfqs[r].requesterId,
                        approverId |-> rfqs[r].approverId,
                        creatorId |-> rfqs[r].quotationCreatorId]])
    /\ UNCHANGED <<now, imageDocs, notifications, stores>>

\* createQuotationOffer(header.quotationNumber, offerData); an error ends
\* the request in the handler's catch block, which only sends the response
CvOffer(p) ==
    /\ pc[p] = "cvOffer"
    /\ LET out == CreateOfferResult(headers[loc[p].hdr].quotationNumber,
                                    loc[p].parent, loc[p].offerItems)
       IN  /\ offers' = out.offers
           /\ items' = out.items
           /\ ids' = out.ids
           /\ IF out.res = "created"
              THEN Continue(p, "cvUpdate", loc[p])
              ELSE Throw(p, out.res)
    /\ UNCHANGED <<now, imageDocs, notifications, rfqs, rfqItems, headers>>

\* RFQ.findByIdAndUpdate(rfqId, { status: 'quotation_created', ... })
CvUpdate(p) ==
    /\ pc[p] = "cvUpdate"
    /\ rfqs' = [rfqs EXCEPT ![loc[p].rfq] =
                  [@ EXCEPT !.status = "quotation_created",
                            !.quotationId = loc[p].hdr,
                            !.quotationCreatedAt = now]]
    /\ Finish(p)
    /\ UNCHANGED <<now, imageDocs, notifications, rfqItems, headers,
                   offers, items, ids>>

\* --------------------------------------------------------- RFQ workflow
NotesInputs == {"n"}

FlowStep(p) ==
    \/ ApRead(p) \/ ApWrite(p)
    \/ RjRead(p) \/ RjWrite(p)
    \/ CvCheck(p) \/ CvLoad(p)
    \/ HdrScan(p) \/ HdrVerify(p) \/ HdrSave(p)
    \/ CvOffer(p) \/ CvUpdate(p)
    \/ Catch(p)

FlowPostRfq ==
    \E actor \in Users, itemData \in RfqItemPayloads :
       PostRfq(actor, "u2", "u3", itemData)

NextFlow ==
    \/ FlowPostRfq
    \/ \E p \in Procs, r \in 1..FlowRfqs, actor \in Users :
          \/ \E notes \in NotesInputs : StartApprove(p, r, actor, notes)
          \/ \E notes \in NotesInputs : StartReject(p, r, actor, notes)
          \/ \E parent \in ParentInputs : StartConvert(p, r, actor, parent)
    \/ \E p \in Procs : FlowStep(p)

SpecFlow == InitEmpty /\ [][NextFlow]_vars

\* ------------------------------------------- quotation requests, one by one
\* item payloads of a quotation or offer creation request
OfferItemPayloads ==
    { << >>,
      << [price |-> 3, netto |-> 2] >>,
      << [price |-> 3, netto |-> 2], [price |-> 3, netto |-> 2] >> }

\* the payload of an offer-item creation or update request
ItemPayloads == { [price |-> 4, netto |-> 4] }

StatusInputs == {"open", "win", "loss"}
ReasonInputs == {"", "r"}

\* the users who send the requests
QuoteUsers == {"u3"}

\* selectedOfferItemIds of a set-status request
SelectionInputs ==
    {S \in SUBSET DOMAIN items : Cardinality(S) <= MaxSelected}

\* the response to a request handled without interruption
Done(op, res, h, o) ==
    last' = [Last0 EXCEPT !.op = op, !.res = res, !.hdr = h, !.offer = o]

\* POST /api/quotations without an rfqId: createQuotationHeader with the
\* actor in all three user fields, then createQuotationOffer
PostQuotation(actor, itemData) ==
    /\ ids.header < QuoteHeaders
    /\ ids.offer < MaxOffers
    /\ ids.item + Len(itemData) <= MaxItems
    /\ Authorized(actor, {"quotation_create"})
    /\ LET cand == NextNumber(HeaderDocs, "QUO", now)
           h == ids.header + 1
           hs == Ext(headers, h, NewHeader(cand, now, actor, actor, actor, NoId))
           out == CreateOfferIn(hs, cand, NoId, itemData)
       IN  /\ cand \notin HeaderNumbers
           /\ UniqueIndexOk(HeaderNumbers, cand)
           /\ headers' = hs
           /\ offers' = out.offers
           /\ items' = out.items
           /\ ids' = [out.ids EXCEPT !.header = h]
           /\ Done("postQuotation", out.res, h, out.offer)
    /\ UNCHANGED <<now, imageDocs, notifications, rfqs, rfqItems, pc, loc>>

\* POST /api/quotations/:quotationId/offers on the existing header h
PostOfferData(actor, h, parent, itemData, images) ==
    /\ ids.item + Len(itemData) <= MaxItems
    /\ Authorized(actor, {"quotation_edit"})
    /\ h \in DOMAIN headers
    /\ LET out == CreateOfferImagesIn(headers, headers[h].quotationNumber,
                                      parent, itemData, images)
       IN  /\ offers' = out.offers
           /\ items' = out.items
           /\ ids' = out.ids
           /\ Done("postOffer", out.res, h, out.offer)
    /\ UNCHANGED <<now, imageDocs, notifications, rfqs, rfqItems, headers,
                   pc, loc>>

\* the same request with no notesImages in its body
PostOffer(actor, h, parent, itemData) ==
    /\ ids.offer < MaxOffers
    /\ PostOfferData(actor, h, parent, itemData, << >>)

\* DELETE /api/quotations/:quotationId/offers/:offerId on the existing
\* header h: cleanupOrphanedImages, OfferItem.deleteMany, then
\* deleteQuotationOffer
DeleteOffer(actor, h, o) ==
    /\ Authorized(actor, {"quotation_edit"})
    /\ h \in DOMAIN headers
    /\ imageDocs' = CleanedUp({o})
    /\ items' = Del(items, ItemsOf(items, o))
    /\ IF o \in DOMAIN offers
       THEN /\ offers' = Del(offers, {o})
            /\ Done("deleteOffer", "ok", h, o)
       ELSE /\ UNCHANGED offers
            /\ Done("deleteOffer", "notFound", h, o)
    /\ UNCHANGED <<now, notifications, rfqs, rfqItems, headers, ids, pc, loc>>

OffersUnder(h) == {o \in DOMAIN offers : offers[o].quotationHeaderId = h}

\* getQuotationOffers(quotationNumber).offers, flattened: the offers of the
\* groups that are returned, which are the groups that have an original
GroupedOffers(h) ==
    {o \in OffersUnder(h) :
       \E g \in OffersUnder(h) :
          /\ offers[g].revision = 0
          /\ offers[g].offerNumberInQuotation =
               offers[o].offerNumberInQuotation}

\* OfferItem.findByIdAndUpdate(item._id, { isAccepted, acceptedAt, acceptedBy })
MarkAccepted(it, isSelected, actor) ==
    [it EXCEPT !.isAccepted = isSelected,
               !.acceptedAt = IF isSelected THEN now ELSE NoTime,
               !.acceptedBy = IF isSelected THEN actor ELSE NoUser]

\* PATCH /api/quotations/:quotationNumber/status on the existing header h
SetStatus(actor, h, type, reason, sel, selItems) ==
    /\ Authorized(actor, {"quotation_edit"})
    /\ h \in DOMAIN headers
    /\ IF type \in {"loss", "close"} /\ reason = ""
       THEN /\ UNCHANGED <<headers, items>>
            /\ Done("setStatus", "reasonRequired", h, NoId)
       ELSE /\ items' =
                 [i \in DOMAIN items |->
                    IF type = "win" /\ sel /= NoId
                    THEN IF items[i].quotationOfferId = sel
                         THEN MarkAccepted(items[i], i \in selItems, actor)
                         ELSE items[i]
                    ELSE IF type /= "win"
                            /\ items[i].quotationOfferId \in GroupedOffers(h)
                    THEN MarkAccepted(items[i], FALSE, actor)
                    ELSE items[i]]
            /\ headers' =
                 [headers EXCEPT ![h] =
                    [@ EXCEPT
                       !.status = [type |-> type, reason |-> reason],
                       !.selectedOfferId =
                          IF type = "win" /\ sel /= NoId THEN sel
                          ELSE IF type /= "win" THEN NoId ELSE @,
                       !.selectedOfferItemIds =
                          IF type = "win" /\ sel /= NoId THEN selItems
                          ELSE IF type /= "win" THEN {} ELSE @]]
            /\ Done("setStatus", "ok", h, sel)
    /\ UNCHANGED <<now, imageDocs, notifications, rfqs, rfqItems, offers,
                   ids, pc, loc>>

\* const offer = await QuotationOffer.findById(offerId);
\* if (offer) { await offer.save(); }
SaveOffer(offs, o, its) ==
    IF o \in DOMAIN offs
    THEN [offs EXCEPT ![o] = Recalculated(offs[o], o, its)]
    ELSE offs

\* POST /api/quotations/:quotationNumber/offers/:offerId/items
PostItem(actor, o, data) ==
    /\ ids.item < MaxItems
    /\ Authorized(actor, {"quotation_edit"})
    /\ DOMAIN headers /= {}
    /\ LET i == ids.item + 1
           nextItemNumber ==
             SetMax({items[x].itemNumber : x \in ItemsOf(items, o)}) + 1
           its == Ext(items, i, NewOfferItem(o, nextItemNumber, data))
       IN  /\ items' = its
           /\ offers' = SaveOffer(offers, o, its)
           /\ ids' = [ids EXCEPT !.item = i]
           /\ Done("postItem", "ok", NoId, NoId)
    /\ UNCHANGED <<now, imageDocs, notifications, rfqs, rfqItems, headers,
                   pc, loc>>

\* findByIdAndUpdate(itemId, updateData): every field of the payload is set
ApplyUpdate(doc, data) ==
    [f \in DOMAIN doc |-> IF f \in DOMAIN data THEN data[f] ELSE doc[f]]

\* PUT /api/quotations/:quotationNumber/offers/:offerId/items/:itemId:
\* OfferItem.findByIdAndUpdate(itemId, { ...req.body, quotationOfferId })
PutItem(actor, o, i, data) ==
    /\ Authorized(actor, {"quotation_edit"})
    /\ DOMAIN headers /= {}
    /\ IF i \in DOMAIN items
       THEN LET its == [items EXCEPT ![i] =
                          [ApplyUpdate(@, data)
                             EXCEPT !.quotationOfferId = o]]
            IN  /\ items' = its
                /\ offers' = SaveOffer(offers, o, its)
                /\ Done("putItem", "ok", NoId, NoId)
       ELSE /\ UNCHANGED <<items, offers>>
            /\ Done("putItem", "notFound", NoId, NoId)
    /\ UNCHANGED <<now, imageDocs, notifications, rfqs, rfqItems, headers,
                   ids, pc, loc>>

\* DELETE /api/quotations/:quotationNumber/offers/:offerId/items/:itemId
DeleteItem(actor, o, i) ==
    /\ Authorized(actor, {"quotation_edit"})
    /\ DOMAIN headers /= {}
    /\ IF i \in DOMAIN items
       THEN LET its == Del(items, {i})
            IN  /\ items' = its
                /\ offers' = SaveOffer(offers, o, its)
                /\ Done("deleteItem", "ok", NoId, NoId)
       ELSE /\ UNCHANGED <<items, offers>>
            /\ Done("deleteItem", "notFound", NoId, NoId)
    /\ UNCHANGED <<now, imageDocs, notifications, rfqs, rfqItems, headers,
                   ids, pc, loc>>

\* PATCH .../offers/:offerId/items/:itemId/accept: the toggle, offerItem.save()
\* with offerItemSchema.pre('save'), then the save of the offer
AcceptItem(actor, o, i) ==
    /\ Authorized(actor, {"quotation_edit"})
    /\ DOMAIN headers /= {}
    /\ IF i \in DOMAIN items
       THEN LET its == [items EXCEPT ![i] =
                          MarkAccepted(@, ~items[i].isAccepted, actor)]
            IN  /\ items' = its
                /\ offers' = SaveOffer(offers, o, its)
                /\ Done("acceptItem", "ok", NoId, NoId)
       ELSE /\ UNCHANGED <<items, offers>>
            /\ Done("acceptItem", "notFound", NoId, NoId)
    /\ UNCHANGED <<now, imageDocs, notifications, rfqs, rfqItems, headers,
                   ids, pc, loc>>

\* ------------------------------------------------- quotations and status
QuoteCreate ==
    \E actor \in QuoteUsers, itemData \in OfferItemPayloads :
       PostQuotation(actor, itemData)

QuoteCreateOffer ==
    \E actor \in QuoteUsers, itemData \in OfferItemPayloads,
       h \in DOMAIN headers, parent \in {NoId} \cup DOMAIN offers :
       PostOffer(actor, h, parent, itemData)

QuoteDeleteOffer ==
    \E actor \in QuoteUsers, h \in DOMAIN headers, o \in DOMAIN offers :
       DeleteOffer(actor, h, o)

QuoteSetStatus ==
    \E actor \in QuoteUsers, h \in DOMAIN headers, type \in StatusInputs,
       reason \in ReasonInputs, sel \in {NoId} \cup DOMAIN offers,
       selItems \in SelectionInputs :
       SetStatus(actor, h, type, reason, sel, selItems)

QuoteAccept ==
    \E actor \in QuoteUsers, o \in DOMAIN offers, i \in DOMAIN items :
       AcceptItem(actor, o, i)

NextQuote ==
    \/ QuoteCreate
    \/ QuoteCreateOffer
    \/ QuoteDeleteOffer
    \/ QuoteSetStatus
    \/ QuoteAccept

SpecQuote == InitEmpty /\ [][NextQuote]_vars

\* ---------------------------------------------------- offers and items
ItemCreate ==
    \E actor \in QuoteUsers, o \in DOMAIN offers, data \in ItemPayloads :
       PostItem(actor, o, data)

ItemUpdate ==
    \E actor \in QuoteUsers, o \in DOMAIN offers, i \in DOMAIN items,
       data \in ItemPayloads :
       PutItem(actor, o, i, data)

ItemDelete ==
    \E actor \in QuoteUsers, o \in DOMAIN offers, i \in DOMAIN items :
       DeleteItem(actor, o, i)

NextItems ==
    \/ QuoteCreate
    \/ QuoteCreateOffer
    \/ ItemCreate
    \/ ItemUpdate
    \/ ItemDelete
    \/ QuoteAccept

SpecItems == InitEmpty /\ [][NextItems]_vars

\* ------------------------------------------------------ quotation deletion
\* DELETE /api/quotations/:quotationNumber on the existing header h: the
\* offer ids are collected from the groups getQuotationOffers returns, their
\* items are deleted, then every offer of the header, then the header
DeleteQuotation(actor, h) ==
    /\ Authorized(actor, {"quotation_delete"})
    /\ h \in DOMAIN headers
    /\ LET offerIds == GroupedOffers(h)
       IN  /\ imageDocs' = CleanedUp(offerIds)
           /\ items' = Del(items, {i \in DOMAIN items :
                                      items[i].quotationOfferId \in offerIds})
    /\ offers' = Del(offers, OffersUnder(h))
    /\ headers' = Del(headers, {h})
    /\ Done("deleteQuotation", "ok", h, NoId)
    /\ UNCHANGED <<now, notifications, rfqs, rfqItems, ids, pc, loc>>

QuoteDelete ==
    \E actor \in QuoteUsers, h \in DOMAIN headers : DeleteQuotation(actor, h)

NextDelete ==
    \/ QuoteCreate
    \/ QuoteCreateOffer
    \/ ItemCreate
    \/ QuoteDeleteOffer
    \/ QuoteDelete

SpecDelete == InitEmpty /\ [][NextDelete]_vars

\* offers with items are created, and offer items are created and deleted
NextItemNumbers ==
    \/ QuoteCreate
    \/ QuoteCreateOffer
    \/ ItemCreate
    \/ ItemDelete

SpecItemNumbers == InitEmpty /\ [][NextItemNumbers]_vars

\* ------------------------------------------------- offers and revisions
\* POST /api/notes-images/upload: a NotesImage document is saved
UploadImage ==
    /\ ids.image < MaxImages
    /\ imageDocs' = imageDocs \cup {ids.image + 1}
    /\ ids' = [ids EXCEPT !.image = @ + 1]
    /\ UNCHANGED <<now, notifications, rfqs, rfqItems, headers, offers, items,
                   pc, loc, last>>

\* notesImages of a request body
ImageInputs == { << >>, << 1 >> }

\* an offer or a revision of an existing offer is created
RevCreateOffer ==
    \E actor \in QuoteUsers, h \in DOMAIN headers,
       parent \in {NoId} \cup DOMAIN offers, images \in ImageInputs :
       /\ ids.offer < MaxRevOffers
       /\ PostOfferData(actor, h, parent, << >>, images)

RevCreate ==
    \E actor \in QuoteUsers : PostQuotation(actor, << >>)

NextRevisions ==
    \/ RevCreate
    \/ RevCreateOffer
    \/ QuoteDeleteOffer
    \/ UploadImage

SpecRevisions == InitEmpty /\ [][NextRevisions]_vars

\* ------------------------------------------------------ RFQ item requests
\* a JavaScript value that holds a user id: the ObjectId itself or its hex
\* string
ObjectId(u) == [type |-> "ObjectId", hex |-> u]

\* ObjectId.prototype.toString()
IdToString(x) == [type |-> "string", hex |-> x.hex]

\* a !== b: values of different types are never strictly equal
StrictNotEqual(a, b) == a.type /= b.type \/ a.hex /= b.hex

\* authenticateToken: req.user.userId = user._id
ReqUserId(actor) == ObjectId(actor)

\* the guards of the three item routes on the RFQ read from the store
RfqItemGuard(r, actor) ==
    IF r \notin DOMAIN rfqs THEN "notFound"
    ELSE IF StrictNotEqual(IdToString(ObjectId(rfqs[r].requesterId)),
                           ReqUserId(actor)) THEN "forbidden"
    ELSE IF rfqs[r].status /= "pending" THEN "invalidState"
    ELSE "pass"

\* next item number of createRFQItem: highest of the RFQ's items + 1
NextRfqItemNumber(its, r) ==
    SetMax({its[i].itemNumber : i \in {j \in DOMAIN its : its[j].rfqId = r}}
           \cup {0}) + 1

\* deleteRFQItem: the remaining items of the RFQ get the numbers 1..N in
\* the order of their item numbers
Renumbered(its, r) ==
    LET order == SortedBy(its, {i \in DOMAIN its : its[i].rfqId = r},
                          "itemNumber")
        pos(i) == CHOOSE k \in 1..Len(order) : order[k] = i
    IN  [i \in DOMAIN its |->
           IF its[i].rfqId = r THEN [its[i] EXCEPT !.itemNumber = pos(i)]
           ELSE its[i]]

\* payloads of the item requests
RfqItemInputs == { [price |-> 5, priceNet |-> 4] }
RfqItemUpdates == { [price |-> 5], [rfqId |-> 2, price |-> 5] }

\* POST /api/rfq/:id/items
PostRfqItem(actor, r, data) ==
    /\ Authorized(actor, {"quotation_requester"})
    /\ LET g == RfqItemGuard(r, actor) IN
         IF g = "pass"
         THEN /\ ids.rfqItem < MaxRfqItems
              /\ rfqItems' = Ext(rfqItems, ids.rfqItem + 1,
                                 NewRfqItem(r, NextRfqItemNumber(rfqItems, r),
                                            data))
              /\ ids' = [ids EXCEPT !.rfqItem = @ + 1]
              /\ Done("addRfqItem", "ok", NoId, NoId)
         ELSE /\ Done("addRfqItem", g, NoId, NoId)
              /\ UNCHANGED <<rfqItems, ids>>
    /\ UNCHANGED <<now, imageDocs, notifications, rfqs, headers, offers,
                   items, pc, loc>>

\* PUT /api/rfq/items/:itemId
PutRfqItem(actor, i, data) ==
    /\ Authorized(actor, {"quotation_requester"})
    /\ IF i \notin DOMAIN rfqItems
       THEN /\ Done("updateRfqItem", "notFound", NoId, NoId)
            /\ UNCHANGED rfqItems
       ELSE LET g == RfqItemGuard(rfqItems[i].rfqId, actor) IN
              IF g = "pass"
              THEN /\ rfqItems' = [rfqItems EXCEPT
                                     ![i] = ApplyUpdate(@, data)]
                   /\ Done("updateRfqItem", "ok", NoId, NoId)
              ELSE /\ Done("updateRfqItem", g, NoId, NoId)
                   /\ UNCHANGED rfqItems
    /\ UNCHANGED <<now, imageDocs, notifications, rfqs, headers, offers,
                   items, ids, pc, loc>>

\* DELETE /api/rfq/items/:itemId
DeleteRfqItem(actor, i) ==
    /\ Authorized(actor, {"quotation_requester"})
    /\ IF i \notin DOMAIN rfqItems
       THEN /\ Done("deleteRfqItem", "notFound", NoId, NoId)
            /\ UNCHANGED rfqItems
       ELSE LET g == RfqItemGuard(rfqItems[i].rfqId, actor) IN
              IF g = "pass"
              THEN /\ rfqItems' = Renumbered(Del(rfqItems, {i}),
                                             rfqItems[i].rfqId)
                   /\ Done("deleteRfqItem", "ok", NoId, NoId)
              ELSE /\ Done("deleteRfqItem", g, NoId, NoId)
                   /\ UNCHANGED rfqItems
    /\ UNCHANGED <<now, imageDocs, notifications, rfqs, headers, offers,
                   items, ids, pc, loc>>

RfqItemIds == 1..MaxRfqItems

RfqItemAdd ==
    \E actor \in Users, r \in 1..FlowRfqs, data \in RfqItemInputs :
       PostRfqItem(actor, r, data)

RfqItemUpdate ==
    \E actor \in Users, i \in RfqItemIds, data \in RfqItemUpdates :
       PutRfqItem(actor, i, data)

RfqItemDelete ==
    \E actor \in Users, i \in RfqItemIds : DeleteRfqItem(actor, i)

DecisionStart ==
    \E p \in Procs, r \in 1..FlowRfqs, actor \in Users, notes \in NotesInputs :
       StartApprove(p, r, actor, notes) \/ StartReject(p, r, actor, notes)

DecisionStep(p) == ApRead(p) \/ ApWrite(p) \/ RjRead(p) \/ RjWrite(p)

\* RFQ creation, decisions on the RFQ and item requests
NextRfqItems ==
    \/ FlowPostRfq
    \/ DecisionStart
    \/ \E p \in Procs : DecisionStep(p)
    \/ RfqItemAdd
    \/ RfqItemUpdate
    \/ RfqItemDelete

SpecRfqItems == InitEmpty /\ [][NextRfqItems]_vars

\* ----------------------------------- PUT /api/quotations/:quotationNumber
\* the status values the schema's enum accepts under runValidators
StatusTypes == {"open", "loss", "win", "close"}

\* request bodies of a header update
HeaderUpdates ==
    { [status |-> [type |-> "loss", reason |-> ""]],
      [status |-> [type |-> "close", reason |-> "r"]],
      [status |-> [type |-> "lost", reason |-> "r"]] }

\* getQuotationOffers, then updateQuotationHeader: findByIdAndUpdate of the
\* header with the request body
PutHeader(actor, h, data) ==
    /\ Authorized(actor, {"quotation_edit"})
    /\ IF h \notin DOMAIN headers
       THEN /\ Done("putHeader", "notFound", NoId, NoId)
            /\ UNCHANGED headers
       ELSE IF "status" \in DOMAIN data /\ data.status.type \notin StatusTypes
       THEN /\ Done("putHeader", "validationError", h, NoId)
            /\ UNCHANGED headers
       ELSE IF /\ "quotationNumber" \in DOMAIN data
               /\ ~UniqueIndexOk({headers[x].quotationNumber :
                                     x \in (DOMAIN headers) \ {h}},
                                  data.quotationNumber)
       THEN /\ Done("putHeader", "duplicateKey", h, NoId)
            /\ UNCHANGED headers
       ELSE /\ headers' = [headers EXCEPT ![h] = ApplyUpdate(@, data)]
            /\ Done("putHeader", "ok", h, NoId)
    /\ UNCHANGED <<now, imageDocs, notifications, rfqs, rfqItems, offers,
                   items, ids,
                   pc, loc>>

HeaderUpdate ==
    \E actor \in QuoteUsers, h \in 1..QuoteHeaders, data \in HeaderUpdates :
       PutHeader(actor, h, data)

NextHeader ==
    \/ QuoteCreate
    \/ QuoteSetStatus
    \/ HeaderUpdate

SpecHeader == InitEmpty /\ [][NextHeader]_vars

\* ------------------------------------ approve and reject, one at a time
\* the HTTP status of a response
HttpStatus(res) ==
    CASE res = "ok" -> 200
      [] res = "invalidState" -> 400
      [] res \in {"insufficientPermissions", "notAuthorized", "forbidden"} -> 403
      [] res = "notFound" -> 404
      [] OTHER -> 500

\* PATCH /api/rfq/:id/approve: authorize(['approve_rfq']), the guards,
\* approveRFQ, the two notifications and the response
ApproveRfq(actor, r, notes) ==
    /\ IF ~Authorized(actor, {"approve_rfq"})
       THEN /\ Done("approve", "insufficientPermissions", NoId, NoId)
            /\ UNCHANGED <<rfqs, notifications, ids>>
       ELSE LET g == DecisionGuard(r, actor) IN
         IF g = "pass"
         THEN /\ rfqs' = [rfqs EXCEPT ![r] =
                            [@ EXCEPT !.status = "approved",
                                      !.isApproved = TRUE,
                                      !.approvedAt = now,
                                      !.approvalDecision = "bid",
                                      !.approvalNotes = notes,
                                      !.approvals = @ + 1]]
              /\ notifications' =
                   AddNotifications(notifications, ids.notification,
                      << NewNotification(rfqs[r].requesterId,
                                         "RFQ Approved - Bid Decision"),
                         NewNotification(rfqs[r].quotationCreatorId,
                                         "RFQ Approved - Create Quotation") >>)
              /\ ids' = [ids EXCEPT !.notification = @ + 2]
              /\ Done("approve", "ok", NoId, NoId)
         ELSE /\ Done("approve", g, NoId, NoId)
              /\ UNCHANGED <<rfqs, notifications, ids>>
    /\ UNCHANGED <<now, imageDocs, rfqItems, headers, offers, items, pc, loc>>

\* PATCH /api/rfq/:id/reject
RejectRfq(actor, r, notes) ==
    /\ IF ~Authorized(actor, {"approve_rfq"})
       THEN /\ Done("reject", "insufficientPermissions", NoId, NoId)
            /\ UNCHANGED <<rfqs, notifications, ids>>
       ELSE LET g == DecisionGuard(r, actor) IN
         IF g = "pass"
         THEN /\ rfqs' = [rfqs EXCEPT ![r] =
                            [@ EXCEPT !.status = "rejected",
                                      !.isApproved = FALSE,
                                      !.rejectedAt = now,
                                      !.approvalDecision = "no_bid",
                                      !.approvalNotes = notes]]
              /\ notifications' =
                   AddNotifications(notifications, ids.notification,
                      << NewNotification(rfqs[r].requesterId,
                                         "RFQ Rejected - No Bid Decision") >>)
              /\ ids' = [ids EXCEPT !.notification = @ + 1]
              /\ Done("reject", "ok", NoId, NoId)
         ELSE /\ Done("reject", g, NoId, NoId)
              /\ UNCHANGED <<rfqs, notifications, ids>>
    /\ UNCHANGED <<now, imageDocs, rfqItems, headers, offers, items, pc, loc>>

DecisionApprove ==
    \E actor \in Users, r \in 1..FlowRfqs, notes \in NotesInputs :
       ApproveRfq(actor, r, notes)

DecisionReject ==
    \E actor \in Users, r \in 1..FlowRfqs, notes \in NotesInputs :
       RejectRfq(actor, r, notes)

NextDecision ==
    \/ FlowPostRfq
    \/ DecisionApprove
    \/ DecisionReject
    \/ Tick

SpecDecision == InitEmpty /\ [][NextDecision]_vars

\* ------------------------- POST /api/quotations with an rfqId, at once
\* the whole handler taken without interruption: the guards, the transfer
\* of the RFQ's items and users, createQuotationHeader,
\* createQuotationOffer and the update of the RFQ
ConvertRfq(actor, r, parent) ==
    /\ Authorized(actor, {"quotation_create"})
    /\ ids.header < MaxHeaders
    /\ ids.offer < MaxOffers
    /\ ids.item + Cardinality(RfqItemsOf(r)) <= MaxItems
    /\ LET g == ConvertGuard(r, actor) IN
         IF g /= "pass"
         THEN /\ Done("convert", g, NoId, NoId)
              /\ UNCHANGED <<rfqs, headers, offers, items, ids>>
         ELSE LET cand == NextNumber(HeaderDocs, "QUO", now)
                  h == ids.header + 1
                  hs == Ext(headers, h,
                            NewHeader(cand, now, rfqs[r].requesterId,
                                      rfqs[r].approverId,
                                      rfqs[r].quotationCreatorId, r))
                  out == CreateOfferIn(hs, cand, parent, TransferredItems(r))
              IN  /\ cand \notin HeaderNumbers
                  /\ UniqueIndexOk(HeaderNumbers, cand)
                  /\ headers' = hs
                  /\ offers' = out.offers
                  /\ items' = out.items
                  /\ ids' = [out.ids EXCEPT !.header = h]
                  /\ IF out.res = "created"
                     THEN /\ rfqs' = [rfqs EXCEPT ![r] =
                                        [@ EXCEPT
                                           !.status = "quotation_created",
                                           !.quotationId = h,
                                           !.quotationCreatedAt = now]]
                          /\ Done("convert", "ok", h, out.offer)
                     ELSE /\ UNCHANGED rfqs
                          /\ Done("convert", out.res, h, NoId)
    /\ UNCHANGED <<now, imageDocs, notifications, rfqItems, pc, loc>>

ConvertAtOnce ==
    \E actor \in Users, r \in 1..FlowRfqs, parent \in ParentInputs :
       ConvertRfq(actor, r, parent)

\* req.body.items of the RFQs that get converted
ConvertPayloads ==
    { << [price |-> 3, priceNet |-> 2] >>,
      << [price |-> 3, priceNet |-> 2], [price |-> 5, priceNet |-> 4] >> }

ConvertPostRfq ==
    \E actor \in Users, itemData \in ConvertPayloads :
       PostRfq(actor, "u2", "u3", itemData)

NextConvert ==
    \/ ConvertPostRfq
    \/ DecisionApprove
    \/ DecisionReject
    \/ ConvertAtOnce
    \/ QuoteCreate
    \/ RfqItemAdd
    \/ RfqItemUpdate
    \/ RfqItemDelete

SpecConvert == InitEmpty /\ [][NextConvert]_vars

\* ------------------------------------------ POST /api/rfq, step by step
\* the validations of the handler, then createRFQ is called
StartPostRfq(p, actor, approver, creator, itemData) ==
    /\ Idle(p)
    /\ ids.rfq + InFlight("postRfq") < FlowRfqs
    /\ Authorized(actor, {"quotation_requester"})
    /\ "approve_rfq" \in UserPerms[approver]
    /\ "quotation_create" \in UserPerms[creator]
    /\ Continue(p, "rfqScan",
                [Loc0 EXCEPT !.op = "postRfq", !.actor = actor,
                             !.newItems = itemData,
                             !.uf = [requesterId |-> actor,
                                     approverId |-> approver,
                                     creatorId |-> creator]])
    /\ UNCHANGED <<now, imageDocs, notifications, stores>>

\* the loop over req.body.items: one createRFQItem per step, and after the
\* last one the response
PrItem(p) ==
    /\ pc[p] = "prItem"
    /\ IF loc[p].newItems = << >>
       THEN /\ notifications' =
                 AddNotifications(notifications, ids.notification,
                    << NewNotification(loc[p].uf.approverId,
                                       "New RFQ Request") >>)
            /\ ids' = [ids EXCEPT !.notification = @ + 1]
            /\ Finish(p)
            /\ UNCHANGED rfqItems
       ELSE /\ rfqItems' = Ext(rfqItems, ids.rfqItem + 1,
                               NewRfqItem(loc[p].rfq,
                                          NextRfqItemNumber(rfqItems, loc[p].rfq),
                                          Head(loc[p].newItems)))
            /\ ids' = [ids EXCEPT !.rfqItem = @ + 1]
            /\ Continue(p, "prItem",
                        [loc[p] EXCEPT !.newItems = Tail(@)])
            /\ UNCHANGED notifications
    /\ UNCHANGED <<now, imageDocs, rfqs, headers, offers, items>>

RaceStartPostRfq ==
    \E p \in Procs, actor \in Users, itemData \in RfqItemPayloads :
       StartPostRfq(p, actor, "u2", "u3", itemData)

PostRfqStep(p) == RfqScan(p) \/ RfqVerify(p) \/ RfqSave(p) \/ PrItem(p)

\* RFQ creation in steps, with decisions and item requests in between
NextRfqRace ==
    \/ RaceStartPostRfq
    \/ \E p \in Procs : PostRfqStep(p)
    \/ DecisionStart
    \/ \E p \in Procs : DecisionStep(p)
    \/ RfqItemAdd
    \/ RfqItemUpdate
    \/ RfqItemDelete

SpecRfqRace == InitEmpty /\ [][NextRfqRace]_vars

\* ------------------------------- notification saves that may fail
\* addNotification: new Notification(payload) and await notif.save(); the
\* save may throw.  fails names the calls of one request whose save throws.
\* The calls are awaited one after the other inside the handler's try, so
\* the first save that throws ends the sequence: the saved notifications
\* are the ones before it.
FailureInputs == SUBSET {1, 2}

FirstFailure(n, fails) ==
    IF fails \cap (1..n) = {} THEN 0
    ELSE CHOOSE k \in fails \cap (1..n) : \A j \in fails \cap (1..n) : k <= j

Awaited(docs, fails) ==
    IF FirstFailure(Len(docs), fails) = 0 THEN docs
    ELSE SubSeq(docs, 1, FirstFailure(Len(docs), fails) - 1)

\* the response after the awaited notifications: sendSuccessResponse when
\* none threw, the handler's catch (500) otherwise
NotifyResult(docs, fails) ==
    IF FirstFailure(Len(docs), fails) = 0 THEN "ok" ELSE "error"

\* POST /api/rfq: createRFQ, the createRFQItem loop, the notification to
\* the approver, the response
PostRfqNotify(actor, approver, creator, itemData, fails) ==
    /\ ids.rfq < FlowRfqs
    /\ Authorized(actor, {"quotation_requester"})
    /\ "approve_rfq" \in UserPerms[approver]
    /\ "quotation_create" \in UserPerms[creator]
    /\ LET cand == NextNumber(RfqDocs, "RFQ", now)
           r == ids.rfq + 1
           n == Len(itemData)
           docs == << NewNotification(approver, "New RFQ Request") >>
       IN  /\ cand \notin RfqNumbers
           /\ UniqueIndexOk(RfqNumbers, cand)
           /\ rfqs' = Ext(rfqs, r, NewRfq(cand, now, actor, approver, creator))
           /\ rfqItems' =
                [i \in (DOMAIN rfqItems) \cup
                       ((ids.rfqItem + 1)..(ids.rfqItem + n)) |->
                   IF i \in DOMAIN rfqItems THEN rfqItems[i]
                   ELSE NewRfqItem(r, i - ids.rfqItem, itemData[i - ids.rfqItem])]
           /\ notifications' =
                AddNotifications(notifications, ids.notification,
                                 Awaited(docs, fails))
           /\ ids' = [ids EXCEPT !.rfq = r, !.rfqItem = @ + n,
                                 !.notification = @ + Len(Awaited(docs, fails))]
           /\ Done("postRfq", NotifyResult(docs, fails), NoId, NoId)
    /\ UNCHANGED <<now, imageDocs, headers, offers, items, pc, loc>>

\* PATCH /api/rfq/:id/approve: approveRFQ, the notification to the
\* requester, the notification to the quotation creator, the response
ApproveRfqNotify(actor, r, notes, fails) ==
    /\ IF ~Authorized(actor, {"approve_rfq"})
       THEN /\ Done("approve", "insufficientPermissions", NoId, NoId)
            /\ UNCHANGED <<rfqs, notifications, ids>>
       ELSE LET g == DecisionGuard(r, actor) IN
         IF g = "pass"
         THEN LET docs == << NewNotification(rfqs[r].requesterId,
                                             "RFQ Approved - Bid Decision"),
                             NewNotification(rfqs[r].quotationCreatorId,
                                             "RFQ Approved - Create Quotation") >>
              IN
              /\ rfqs' = [rfqs EXCEPT ![r] =
                            [@ EXCEPT !.status = "approved",
                                      !.isApproved = TRUE,
                                      !.approvedAt = now,
                                      !.approvalDecision = "bid",
                                      !.approvalNotes = notes,
                                      !.approvals = @ + 1]]
              /\ notifications' =
                   AddNotifications(notifications, ids.notification,
                                    Awaited(docs, fails))
              /\ ids' = [ids EXCEPT !.notification =
                                       @ + Len(Awaited(docs, fails))]
              /\ Done("approve", NotifyResult(docs, fails), NoId, NoId)
         ELSE /\ Done("approve", g, NoId, NoId)
              /\ UNCHANGED <<rfqs, notifications, ids>>
    /\ UNCHANGED <<now, imageDocs, rfqItems, headers, offers, items, pc, loc>>

\* PATCH /api/rfq/:id/reject: rejectRFQ, the notification to the
\* requester, the response
RejectRfqNotify(actor, r, notes, fails) ==
    /\ IF ~Authorized(actor, {"approve_rfq"})
       THEN /\ Done("reject", "insufficientPermissions", NoId, NoId)
            /\ UNCHANGED <<rfqs, notifications, ids>>
       ELSE LET g == DecisionGuard(r, actor) IN
         IF g = "pass"
         THEN LET docs == << NewNotification(rfqs[r].requesterId,
                                             "RFQ Rejected - No Bid Decision") >>
              IN
              /\ rfqs' = [rfqs EXCEPT ![r] =
                            [@ EXCEPT !.status = "rejected",
                                      !.isApproved = FALSE,
                                      !.rejectedAt = now,
                                      !.approvalDecision = "no_bid",
                                      !.approvalNotes = notes]]
              /\ notifications' =
                   AddNotifications(notifications, ids.notification,
                                    Awaited(docs, fails))
              /\ ids' = [ids EXCEPT !.notification =
                                       @ + Len(Awaited(docs, fails))]
              /\ Done("reject", NotifyResult(docs, fails), NoId, NoId)
         ELSE /\ Done("reject", g, NoId, NoId)
              /\ UNCHANGED <<rfqs, notifications, ids>>
    /\ UNCHANGED <<now, imageDocs, rfqItems, headers, offers, items, pc, loc>>

NotifyPostRfq ==
    \E actor \in Users, approver \in {"u2", "u3"}, creator \in {"u2", "u3"},
       itemData \in RfqItemPayloads, fails \in FailureInputs :
       PostRfqNotify(actor, approver, creator, itemData, fails)

NotifyApprove ==
    \E actor \in Users, r \in 1..FlowRfqs, notes \in NotesInputs,
       fails \in FailureInputs :
       ApproveRfqNotify(actor, r, notes, fails)

NotifyReject ==
    \E actor \in Users, r \in 1..FlowRfqs, notes \in NotesInputs,
       fails \in FailureInputs :
       RejectRfqNotify(actor, r, notes, fails)

\* RFQ creation and decisions whose notification saves may fail
NextNotify ==
    \/ NotifyPostRfq
    \/ NotifyApprove
    \/ NotifyReject
    \/ Tick

SpecNotify == InitEmpty /\ [][NextNotify]_vars

\* ------------------------------------------------ GET /api/rfq (list)
\* req.query.status: absent ("") or a status to filter on
StatusFilters == {"", "pending", "approved"}

\* the query built from the actor's permissions: the first of approve_rfq,
\* quotation_create, quotation_requester that the actor holds names the
\* one field matched against the actor
RoleQuery(actor) ==
    IF "approve_rfq" \in UserPerms[actor] THEN "approverId"
    ELSE IF "quotation_create" \in UserPerms[actor] THEN "quotationCreatorId"
    ELSE IF "quotation_requester" \in UserPerms[actor] THEN "requesterId"
    ELSE "none"

\* getRFQs(query): RFQ.find(filters); the default page (limit 10) holds
\* every RFQ of the model
GetRfqs(field, actor, status) ==
    { r \in DOMAIN rfqs :
        /\ rfqs[r][field] = actor
        /\ (status /= "" => rfqs[r].status = status) }

\* the whole handler: 403 without a relevant permission, the ids of the
\* RFQs of the page otherwise
ListRfqs(actor, status) ==
    /\ IF RoleQuery(actor) = "none"
       THEN Done("listRfqs", "forbidden", NoId, NoId)
       ELSE last' = [Last0 EXCEPT !.op = "listRfqs", !.res = "ok",
                                  !.data = GetRfqs(RoleQuery(actor), actor,
                                                   status)]
    /\ UNCHANGED <<now, imageDocs, notifications, rfqs, rfqItems, headers,
                   offers, items,
                   ids, pc, loc>>

\* GET /api/rfq/:id: hasAccess
HasAccess(r, actor) ==
    \/ rfqs[r].requesterId = actor
    \/ "approve_rfq" \in UserPerms[actor] /\ rfqs[r].approverId = actor
    \/ "quotation_create" \in UserPerms[actor]
          /\ rfqs[r].quotationCreatorId = actor

GetRfq(actor, r) ==
    /\ IF r \notin DOMAIN rfqs
       THEN Done("getRfq", "error", NoId, NoId)
       ELSE IF ~HasAccess(r, actor)
       THEN Done("getRfq", "forbidden", NoId, NoId)
       ELSE last' = [Last0 EXCEPT !.op = "getRfq", !.res = "ok",
                                  !.data = {r}]
    /\ UNCHANGED <<now, imageDocs, notifications, rfqs, rfqItems, headers,
                   offers, items,
                   ids, pc, loc>>

ListPostRfq ==
    \E actor \in Users, approver \in {"u2", "u3"}, creator \in {"u2", "u3"},
       itemData \in RfqItemPayloads :
       PostRfq(actor, approver, creator, itemData)

ListAll ==
    \E actor \in Users, status \in StatusFilters : ListRfqs(actor, status)

ListOne ==
    \E actor \in Users, r \in 1..FlowRfqs : GetRfq(actor, r)

NextList ==
    \/ ListPostRfq
    \/ DecisionApprove
    \/ DecisionReject
    \/ ListAll
    \/ ListOne

SpecList == InitEmpty /\ [][NextList]_vars

\* ------------------------------------ quotation reads and header updates
\* GET /api/quotations/:quotationNumber: authorize(['quotation_view']) and
\* getQuotationOffers; the response carries the header and its offers
GetQuotation(actor, h) ==
    /\ IF ~Authorized(actor, {"quotation_view"})
       THEN Done("getQuotation", "insufficientPermissions", NoId, NoId)
       ELSE IF h \notin DOMAIN headers
       THEN Done("getQuotation", "notFound", NoId, NoId)
       ELSE last' = [Last0 EXCEPT !.op = "getQuotation", !.res = "ok",
                                  !.hdr = h,
                                  !.data = GroupedOffers(h)]
    /\ UNCHANGED <<now, imageDocs, notifications, rfqs, rfqItems, headers,
                   offers, items,
                   ids, pc, loc>>

AccessGet ==
    \E actor \in Users, h \in 1..QuoteHeaders : GetQuotation(actor, h)

AccessUpdate ==
    \E actor \in Users, h \in 1..QuoteHeaders, data \in HeaderUpdates :
       PutHeader(actor, h, data)

NextAccess ==
    \/ QuoteCreate
    \/ QuoteCreateOffer
    \/ AccessGet
    \/ AccessUpdate

SpecAccess == InitEmpty /\ [][NextAccess]_vars

\* --------------------------------- notes images and offer deletion in steps
\* DELETE /api/quotations/:quotationId/offers/:offerId, one awaited call
\* per step.  authorize(['quotation_edit']) and the header lookup
StartDeleteOffer(p, actor, h, o) ==
    /\ Idle(p)
    /\ Authorized(actor, {"quotation_edit"})
    /\ h \in DOMAIN headers
    /\ Continue(p, "doFind", [Loc0 EXCEPT !.op = "deleteOffer", !.hdr = h,
                                          !.offer = o, !.actor = actor])
    /\ UNCHANGED <<now, imageDocs, notifications, stores>>

\* cleanupOrphanedImages: QuotationOffer.find({ _id: { $in: offerIds } });
\* without an image the cleanup returns
DoFind(p) ==
    /\ pc[p] = "doFind"
    /\ LET allImageIds == AllImageIds({loc[p].offer})
       IN  IF allImageIds = {}
           THEN Continue(p, "doItems", loc[p])
           ELSE Continue(p, "doUsed", [loc[p] EXCEPT !.imageIds = allImageIds])
    /\ UNCHANGED <<now, imageDocs, notifications, stores>>

\* cleanupOrphanedImages: the query for the offers that still use an image,
\* and the orphaned images
DoUsed(p) ==
    /\ pc[p] = "doUsed"
    /\ Continue(p, "doImages",
                [loc[p] EXCEPT !.imageIds =
                   OrphanedImageIds({loc[p].offer}, loc[p].imageIds)])
    /\ UNCHANGED <<now, imageDocs, notifications, stores>>

\* cleanupOrphanedImages: NotesImage.findByIdAndDelete of every orphaned
\* image
DoImages(p) ==
    /\ pc[p] = "doImages"
    /\ imageDocs' = imageDocs \ loc[p].imageIds
    /\ Continue(p, "doItems", loc[p])
    /\ UNCHANGED <<now, notifications, stores>>

\* OfferItem.deleteMany({ quotationOfferId: offerId }); fail: the call
\* throws and the handler's catch answers 400
DoItems(p, fail) ==
    /\ pc[p] = "doItems"
    /\ IF fail
       THEN /\ Throw(p, "deleteMany")
            /\ UNCHANGED items
       ELSE /\ items' = Del(items, ItemsOf(items, loc[p].offer))
            /\ Continue(p, "doOffer", loc[p])
    /\ UNCHANGED <<now, imageDocs, notifications, rfqs, rfqItems, headers,
                   offers, ids>>

\* deleteQuotationOffer: findByIdAndDelete, which throws without the offer
DoOffer(p) ==
    /\ pc[p] = "doOffer"
    /\ IF loc[p].offer \in DOMAIN offers
       THEN /\ offers' = Del(offers, {loc[p].offer})
            /\ Finish(p)
       ELSE /\ UNCHANGED offers
            /\ Throw(p, "Quotation offer not found")
    /\ UNCHANGED <<now, imageDocs, notifications, rfqs, rfqItems, headers,
                   items, ids>>

ImagesStartDelete ==
    \E p \in Procs, actor \in QuoteUsers, h \in DOMAIN headers,
       o \in DOMAIN offers : StartDeleteOffer(p, actor, h, o)

ImagesDeleteStep(p) ==
    \/ DoFind(p)
    \/ DoUsed(p)
    \/ DoImages(p)
    \/ \E fail \in BOOLEAN : DoItems(p, fail)
    \/ DoOffer(p)
    \/ Catch(p)

\* images are uploaded, offers and revisions are created with images, and
\* offers are deleted in steps
NextImages ==
    \/ RevCreate
    \/ RevCreateOffer
    \/ UploadImage
    \/ ImagesStartDelete
    \/ \E p \in Procs : ImagesDeleteStep(p)

SpecImages == InitEmpty /\ [][NextImages]_vars

\* ------------------------------------------ requests that carry a number
\* request bodies of a header update with a quotationNumber of their own
NumberUpdates == { [quotationNumber |-> FormatNumber(9, "QUO", 1, 2000)] }

HeaderPut ==
    \E actor \in QuoteUsers, h \in 1..QuoteHeaders,
       data \in HeaderUpdates \cup NumberUpdates :
       PutHeader(actor, h, data)

\* RFQs are created, decided and converted, and headers are updated
NextNumbers ==
    \/ FlowPostRfq
    \/ DecisionApprove
    \/ DecisionReject
    \/ ConvertAtOnce
    \/ HeaderPut

SpecNumbers == InitEmpty /\ [][NextNumbers]_vars

\* ------------------------------------------- offer item creation in steps
\* the paths the offer's pre('save') hook assigns
TotalFields ==
    {"totalItemsCount", "acceptedItemsCount", "totalPrice", "totalNetto",
     "totalDiscount", "isFullyAccepted", "isPartiallyAccepted"}

\* offer.save() of the document loaded as `loaded` and left by the hook as
\* `hooked`: the update sets the paths whose value the hook changed, on the
\* document that is stored now
SavedPaths(stored, loaded, hooked) ==
    [f \in DOMAIN stored |->
       IF f \in TotalFields /\ hooked[f] /= loaded[f] THEN hooked[f]
       ELSE stored[f]]

\* POST /api/quotations/:quotationNumber/offers/:offerId/items up to
\* offerItem.save(): authorize, getQuotationOffers, the next item number
\* and the item write
StartPostItem(p, actor, o, data) ==
    /\ Idle(p)
    /\ ids.item < MaxItems
    /\ Authorized(actor, {"quotation_edit"})
    /\ DOMAIN headers /= {}
    /\ LET i == ids.item + 1
           nextItemNumber ==
             SetMax({items[x].itemNumber : x \in ItemsOf(items, o)}) + 1
       IN  /\ items' = Ext(items, i, NewOfferItem(o, nextItemNumber, data))
           /\ ids' = [ids EXCEPT !.item = i]
    /\ Continue(p, "piLoad", [Loc0 EXCEPT !.op = "postItem", !.offer = o,
                                          !.actor = actor])
    /\ UNCHANGED <<now, imageDocs, notifications, rfqs, rfqItems, headers,
                   offers>>

\* const offer = await QuotationOffer.findById(offerId)
PiLoad(p) ==
    /\ pc[p] = "piLoad"
    /\ IF loc[p].offer \in DOMAIN offers
       THEN Continue(p, "piHook",
                     [loc[p] EXCEPT !.loaded = offers[loc[p].offer]])
       ELSE Finish(p)
    /\ UNCHANGED <<now, imageDocs, notifications, stores>>

\* offer.save(): the pre('save') hook reads the items of the offer and
\* assigns the totals to the loaded document
PiHook(p) ==
    /\ pc[p] = "piHook"
    /\ Continue(p, "piWrite",
                [loc[p] EXCEPT !.hooked =
                   Recalculated(loc[p].loaded, loc[p].offer, items)])
    /\ UNCHANGED <<now, imageDocs, notifications, stores>>

\* offer.save(): the update of the stored offer, then the response
PiWrite(p) ==
    /\ pc[p] = "piWrite"
    /\ IF loc[p].offer \in DOMAIN offers
       THEN /\ offers' = [offers EXCEPT ![loc[p].offer] =
                            SavedPaths(@, loc[p].loaded, loc[p].hooked)]
            /\ Finish(p)
       ELSE /\ UNCHANGED offers
            /\ Throw(p, "DocumentNotFoundError")
    /\ UNCHANGED <<now, imageDocs, notifications, rfqs, rfqItems, headers,
                   items, ids>>

ItemRaceStart ==
    \E p \in Procs, actor \in QuoteUsers, o \in DOMAIN offers,
       data \in ItemPayloads : StartPostItem(p, actor, o, data)

PostItemStep(p) == PiLoad(p) \/ PiHook(p) \/ PiWrite(p)

\* quotations are created and items are added to their offers in steps
NextItemRace ==
    \/ QuoteCreate
    \/ ItemRaceStart
    \/ \E p \in Procs : PostItemStep(p)

SpecItemRace == InitEmpty /\ [][NextItemRace]_vars

\* ------------------------------------- the RFQ item helpers, one at a time
\* itemData of a createRFQItem call: with and without an itemNumber
HelperItemInputs ==
    { [price |-> 5, priceNet |-> 4],
      [price |-> 5, priceNet |-> 4, itemNumber |-> 7] }

\* updateData of an updateRFQItem call
HelperItemUpdates == RfqItemUpdates \cup { [itemNumber |-> 1] }

\* createRFQItem(rfqId, itemData): new RFQItem({ ...itemData, rfqId,
\* itemNumber: nextItemNumber }) and item.save()
CreateRFQItem(r, itemData) ==
    /\ ids.rfqItem < MaxItems
    /\ LET nextItemNumber == NextRfqItemNumber(rfqItems, r)
           item == [f \in {"rfqId", "itemNumber", "price", "priceNet"} |->
                      CASE f = "rfqId" -> r
                        [] f = "itemNumber" -> nextItemNumber
                        [] OTHER -> itemData[f]]
       IN  rfqItems' = Ext(rfqItems, ids.rfqItem + 1, item)
    /\ ids' = [ids EXCEPT !.rfqItem = @ + 1]
    /\ UNCHANGED <<now, imageDocs, notifications, rfqs, headers, offers,
                   items, pc, loc, last>>

\* updateRFQItem(itemId, updateData): findByIdAndUpdate with the payload
UpdateRFQItem(i, updateData) ==
    /\ i \in DOMAIN rfqItems
    /\ rfqItems' = [rfqItems EXCEPT ![i] = ApplyUpdate(@, updateData)]
    /\ UNCHANGED <<now, imageDocs, notifications, rfqs, headers, offers,
                   items, ids, pc, loc, last>>

\* deleteRFQItem(itemId): findByIdAndDelete, then the remaining items of the
\* RFQ are renumbered
DeleteRFQItem(i) ==
    /\ i \in DOMAIN rfqItems
    /\ rfqItems' = Renumbered(Del(rfqItems, {i}), rfqItems[i].rfqId)
    /\ UNCHANGED <<now, imageDocs, notifications, rfqs, headers, offers,
                   items, ids, pc, loc, last>>

HelperCreate ==
    \E r \in 1..FlowRfqs, itemData \in HelperItemInputs :
       /\ r \in DOMAIN rfqs
       /\ CreateRFQItem(r, itemData)

HelperUpdate ==
    \E i \in 1..MaxItems, updateData \in HelperItemUpdates :
       UpdateRFQItem(i, updateData)

HelperDelete == \E i \in 1..MaxItems : DeleteRFQItem(i)

\* an RFQ is created and its items are created, updated and deleted
NextHelpers ==
    \/ FlowPostRfq
    \/ HelperCreate
    \/ HelperUpdate
    \/ HelperDelete

SpecHelpers == InitEmpty /\ [][NextHelpers]_vars

\* ------------------------------------------ acceptance of offer items
\* request bodies of an offer-item update that carry isAccepted
AcceptPayloads == { [isAccepted |-> TRUE], [isAccepted |-> FALSE] }

AcceptPut ==
    \E actor \in QuoteUsers, o \in DOMAIN offers, i \in DOMAIN items,
       data \in ItemPayloads \cup AcceptPayloads :
       PutItem(actor, o, i, data)

\* quotations are created, items are updated and their acceptance toggled
NextAccept ==
    \/ QuoteCreate
    \/ AcceptPut
    \/ QuoteAccept

SpecAccept == InitEmpty /\ [][NextAccept]_vars

\* ================================================================ claims

Distinct(f, field(_)) ==
    \A a, b \in DOMAIN f : a /= b => field(f[a]) /= field(f[b])

GetRfqNumber(d) == d.rfqNumber
GetQuotationNumber(d) == d.quotationNumber
GetOfferNumber(d) == d.offerNumber

\* C1: every concurrent RFQ or quotation-header creation of one month ends
\* with a persisted document, and the persisted numbers are pairwise distinct
C1_EveryCreationPersists ==
    /\ \A p \in Procs :
         pc[p] = "catch" => loc[p].op \notin {"createRFQ", "createHeader"}
    /\ Distinct(rfqs, GetRfqNumber)
    /\ Distinct(headers, GetQuotationNumber)

\* C2: no two persisted RFQs share an rfqNumber, no two headers a
\* quotationNumber, no two offers an offerNumber
C2_NumbersUnique ==
    /\ Distinct(rfqs, GetRfqNumber)
    /\ Distinct(headers, GetQuotationNumber)
    /\ Distinct(offers, GetOfferNumber)

\* a save that carried an already stored number has just been rejected by
\* the store, with documents of all three kinds persisted
C2_DuplicateRejected ==
    /\ \E p \in Procs : pc[p] = "catch" /\ loc[p].err = "duplicateKey"
    /\ DOMAIN rfqs /= {}
    /\ DOMAIN headers /= {}
    /\ DOMAIN offers /= {}

\* 1 + the highest leading integer among all stored numbers of the type that
\* are numbered for the month and year of instant t
ExpectedNumber(docs, type, t) ==
    LET y == DateOf(t)[1]
        m == DateOf(t)[2]
    IN  FormatNumber(SetMax({MatchNumber(d.num, type, m, y) : d \in docs}
                              \cup {0}) + 1, type, m, y)

\* C3: with no other creation in progress, on any day, the generator never
\* has to start over (it terminates) and the number it computes is 1 + the
\* highest number of the current month and year
C3_NextIsHighestPlusOne ==
    \A p \in Procs :
       /\ pc[p] \in {"rfqVerify", "rfqSave"} =>
            /\ loc[p].cand \notin RfqNumbers
            /\ loc[p].cand = ExpectedNumber(RfqDocs, "RFQ", loc[p].t)
       /\ pc[p] \in {"hdrVerify", "hdrSave"} =>
            /\ loc[p].cand \notin HeaderNumbers
            /\ loc[p].cand = ExpectedNumber(HeaderDocs, "QUO", loc[p].t)

StatusMoves ==
    {<<"pending", "approved">>, <<"pending", "rejected">>,
     <<"approved", "quotation_created">>}

DecisionFields(d) ==
    <<d.status, d.isApproved, d.approvalDecision, d.approvalNotes,
      d.approvedAt, d.rejectedAt>>

\* C4: of the approve requests on one RFQ at most one is answered with
\* success; every other one ends with InvalidState and writes nothing
C4_OneApproveSucceeds ==
    \A r \in DOMAIN rfqs : rfqs[r].approvals <= 1

\* C5: every change of an RFQ's status is pending->approved,
\* pending->rejected or approved->quotation_created, and once an RFQ has left
\* pending no approve or reject changes its decision fields
C5_TransitionsIrreversible ==
    [][\A r \in DOMAIN rfqs :
         /\ rfqs'[r].status /= rfqs[r].status
               => <<rfqs[r].status, rfqs'[r].status>> \in StatusMoves
         /\ (rfqs[r].status /= "pending"
              /\ rfqs'[r].status /= "quotation_created")
               => DecisionFields(rfqs'[r]) = DecisionFields(rfqs[r])]_vars

HeadersFrom(r) == {h \in DOMAIN headers : headers[h].fromRfq = r}

\* C6: at most one quotation header is ever created from one RFQ, and an
\* RFQ's quotationId is written at most once, in the step that sets its
\* status to quotation_created
C6_OneHeaderPerRfq ==
    [][\A r \in DOMAIN rfqs :
         /\ Cardinality(HeadersFrom(r)') <= 1
         /\ rfqs'[r].quotationId /= rfqs[r].quotationId
               => /\ rfqs[r].quotationId = NoId
                  /\ rfqs[r].status /= "quotation_created"
                  /\ rfqs'[r].status = "quotation_created"]_vars

\* the conversion request that created header h is still running
Converting(h) ==
    \E p \in Procs : pc[p] /= "idle" /\ loc[p].op = "convert" /\ loc[p].hdr = h

\* C7: once the conversion request has ended, a header created from an RFQ
\* exists only if the RFQ has status quotation_created and points to it
C7_ConversionAllOrNothing ==
    \A h \in DOMAIN headers :
       (headers[h].fromRfq /= NoId /\ ~Converting(h))
          => /\ rfqs[headers[h].fromRfq].status = "quotation_created"
             /\ rfqs[headers[h].fromRfq].quotationId = h

\* C8: after a set-status request with type win, offer O and item ids S, the
\* items of O in S are accepted and stamped, the other items of O are not
\* accepted, and O's cached acceptedItemsCount and isPartiallyAccepted agree
\* with S
C8_WinMarksSelection ==
    (last.op = "setStatus" /\ last.res = "ok" /\ last.offer /= NoId
     /\ headers[last.hdr].status.type = "win")
      => LET O == last.offer
             S == headers[last.hdr].selectedOfferItemIds
             mine == ItemsOf(items, O)
         IN  /\ \A i \in mine \cap S :
                   /\ items[i].isAccepted
                   /\ items[i].acceptedAt /= NoTime
                   /\ items[i].acceptedBy /= NoUser
             /\ \A i \in mine \ S : ~items[i].isAccepted
             /\ O \in DOMAIN offers =>
                   /\ offers[O].acceptedItemsCount = Cardinality(mine \cap S)
                   /\ offers[O].isPartiallyAccepted
                        = (mine \cap S /= {} /\ mine \ S /= {})

\* the cached totals of offer o are the values derived from its items
CacheMatches(o) == offers[o] = Recalculated(offers[o], o, items)

\* C9: after a completed offer-item create, update, delete or accept-toggle
\* request, the cached totals of every offer equal the values derived from
\* the items attached to it
C9_CachesMatchItems ==
    (last.op \in {"postItem", "putItem", "deleteItem", "acceptItem"}
     /\ last.res = "ok")
      => \A o \in DOMAIN offers : CacheMatches(o)

\* C10: after a set-status request with a type other than win on header h,
\* the header's selection is cleared, no item of an offer under h is
\* accepted, and every offer under h has acceptedItemsCount 0 and neither
\* acceptance flag set
C10_NonWinClearsAll ==
    (last.op = "setStatus" /\ last.res = "ok"
     /\ headers[last.hdr].status.type /= "win")
      => LET h == last.hdr
         IN  /\ headers[h].selectedOfferId = NoId
             /\ headers[h].selectedOfferItemIds = {}
             /\ \A o \in OffersUnder(h) :
                   /\ \A i \in ItemsOf(items, o) : ~items[i].isAccepted
                   /\ offers[o].acceptedItemsCount = 0
                   /\ ~offers[o].isFullyAccepted
                   /\ ~offers[o].isPartiallyAccepted

\* C11: a quotation delete request leaves no offer of the deleted header and
\* no offer item attached to an offer that belonged to the header
C11_DeleteCascades ==
    [][\A h \in (DOMAIN headers) \ (DOMAIN headers') :
         /\ \A o \in DOMAIN offers' : offers'[o].quotationHeaderId /= h
         /\ \A i \in DOMAIN items' :
               items'[i].quotationOfferId \notin OffersUnder(h)]_vars


\* C12: an add, update or delete RFQ-item request by the RFQ's requester on a
\* pending RFQ is applied, and every other one is rejected without creating,
\* changing or removing an item
C12_ItemRequestByRequester ==
    [][/\ \A actor \in Users, r \in DOMAIN rfqs, data \in RfqItemInputs :
            PostRfqItem(actor, r, data) =>
               IF rfqs[r].requesterId = actor /\ rfqs[r].status = "pending"
               THEN last'.res = "ok" /\ rfqItems' /= rfqItems
               ELSE last'.res /= "ok" /\ rfqItems' = rfqItems
       /\ \A actor \in Users, i \in DOMAIN rfqItems, data \in RfqItemUpdates :
            PutRfqItem(actor, i, data) =>
               LET r == rfqItems[i].rfqId IN
                 IF rfqs[r].requesterId = actor /\ rfqs[r].status = "pending"
                 THEN last'.res = "ok" /\ rfqItems' /= rfqItems
                 ELSE last'.res /= "ok" /\ rfqItems' = rfqItems
       /\ \A actor \in Users, i \in DOMAIN rfqItems :
            DeleteRfqItem(actor, i) =>
               LET r == rfqItems[i].rfqId IN
                 IF rfqs[r].requesterId = actor /\ rfqs[r].status = "pending"
                 THEN last'.res = "ok" /\ i \notin DOMAIN rfqItems'
                 ELSE last'.res /= "ok" /\ rfqItems' = rfqItems]_vars


\* the items attached to RFQ r, with their fields
ItemsAttached(its, r) ==
    [i \in {j \in DOMAIN its : its[j].rfqId = r} |-> its[i]]

\* C13: the items attached to an RFQ and their fields change only in steps
\* taken while the RFQ's status is pending
C13_ItemsChangeOnlyWhilePending ==
    [][\A r \in DOMAIN rfqs :
         ItemsAttached(rfqItems', r) /= ItemsAttached(rfqItems, r)
            => rfqs[r].status = "pending"]_vars


\* C14: an approve or reject request on an RFQ by an actor who is not its
\* approverId is answered as not authorized (403), whatever the actor's
\* permissions and the RFQ's status, changes no RFQ and saves no notification
C14_OnlyApproverDecides ==
    [][\A actor \in Users, r \in DOMAIN rfqs, notes \in NotesInputs :
         /\ ApproveRfq(actor, r, notes) \/ RejectRfq(actor, r, notes)
         /\ actor /= rfqs[r].approverId
         => /\ HttpStatus(last'.res) = 403
            /\ rfqs' = rfqs
            /\ notifications' = notifications]_vars

\* a request by somebody else than the approver was answered as not
\* authorized on an RFQ that is no longer pending
C14_StrangerOnDecidedRfq ==
    /\ last.op \in {"approve", "reject"}
    /\ last.res = "notAuthorized"
    /\ \E r \in DOMAIN rfqs : rfqs[r].status /= "pending"


\* C15: a conversion request fails with NotFound when the RFQ does not
\* exist, with InvalidState when its status is not approved and with
\* NotAuthorized when the actor is not its quotationCreatorId, and in each
\* case creates no header, offer or offer item, consumes no number and
\* leaves the RFQ unchanged
C15_ConversionGuards ==
    [][\A actor \in Users, r \in 1..FlowRfqs, parent \in ParentInputs :
         ConvertRfq(actor, r, parent) =>
            LET failure ==
                  IF r \notin DOMAIN rfqs THEN "notFound"
                  ELSE IF rfqs[r].status /= "approved" THEN "invalidState"
                  ELSE IF rfqs[r].quotationCreatorId /= actor
                       THEN "notAuthorized"
                  ELSE "none"
            IN  failure /= "none" =>
                   /\ last'.res = failure
                   /\ headers' = headers
                   /\ offers' = offers
                   /\ items' = items
                   /\ ids' = ids
                   /\ rfqs' = rfqs]_vars

\* a conversion of an approved RFQ was refused to somebody else than its
\* quotation creator
C15_StrangerRefused ==
    /\ last.op = "convert"
    /\ last.res = "notAuthorized"
    /\ \E r \in DOMAIN rfqs : rfqs[r].status = "approved"


\* C16: converting an approved RFQ gives a first offer with one offer item
\* per RFQ item (price = price, netto = priceNet), totalItemsCount = number
\* of RFQ items, totalPrice and totalNetto their sums, totalDiscount =
\* totalPrice - totalNetto and acceptedItemsCount = 0, and leaves the RFQ with
\* status quotation_created and quotationId = the new header's id
C16_ConversionTransfersItems ==
    [][\A actor \in Users, r \in DOMAIN rfqs, parent \in ParentInputs :
         ConvertRfq(actor, r, parent) /\ last'.res = "ok" =>
            LET h == last'.hdr
                o == last'.offer
                src == RfqItemsOf(r)
                mine == ItemsOf(items', o)
                price == SumOver(rfqItems, src, "price")
                netto == SumOver(rfqItems, src, "priceNet")
            IN  /\ h \in (DOMAIN headers') \ (DOMAIN headers)
                /\ o \in (DOMAIN offers') \ (DOMAIN offers)
                /\ offers'[o].quotationHeaderId = h
                /\ Cardinality(mine) = Cardinality(src)
                /\ \A i \in src : \E j \in mine :
                      /\ items'[j].itemNumber = rfqItems[i].itemNumber
                      /\ items'[j].price = rfqItems[i].price
                      /\ items'[j].netto = rfqItems[i].priceNet
                /\ offers'[o].totalItemsCount = Cardinality(src)
                /\ offers'[o].totalPrice = price
                /\ offers'[o].totalNetto = netto
                /\ offers'[o].totalDiscount = price - netto
                /\ offers'[o].acceptedItemsCount = 0
                /\ rfqs'[r].status = "quotation_created"
                /\ rfqs'[r].quotationId = h]_vars

\* an RFQ with two items has been converted
C16_TwoItemsConverted ==
    /\ last.op = "convert"
    /\ last.res = "ok"
    /\ Cardinality(ItemsOf(items, last.offer)) = 2
    /\ \E r \in DOMAIN rfqs : /\ rfqs[r].status = "quotation_created"
                              /\ rfqs[r].quotationId = last.hdr


\* the elements of a sequence
Range(q) == {q[k] : k \in 1..Len(q)}

\* C17: a revision created from parent offer P has P's offerNumberInQuotation,
\* revision = P.revision + 1, parentQuotationId = P, P's offer number without
\* its -RevN suffix followed by -Rev and that revision, and as notesImages the
\* duplicate-free union of P's images and the supplied ones
C17_RevisionOfParent ==
    [][\A actor \in QuoteUsers, h \in DOMAIN headers, P \in DOMAIN offers,
          images \in ImageInputs :
         PostOfferData(actor, h, P, << >>, images) /\ last'.res = "created" =>
            LET new == offers'[last'.offer] IN
              /\ new.offerNumberInQuotation = offers[P].offerNumberInQuotation
              /\ new.revision = offers[P].revision + 1
              /\ new.parentQuotationId = P
              /\ new.offerNumber =
                   [BaseOfferNumber(offers[P].offerNumber)
                      EXCEPT !.rev = offers[P].revision + 1]
              /\ Range(new.notesImages) =
                   Range(offers[P].notesImages) \cup Range(images)
              /\ Cardinality(Range(new.notesImages)) =
                   Len(new.notesImages)]_vars


\* no two offers of a header have the same slot and the same revision
SlotRevisionUnique ==
    \A a, b \in DOMAIN offers :
       /\ a /= b
       /\ offers[a].quotationHeaderId = offers[b].quotationHeaderId
       /\ offers[a].offerNumberInQuotation = offers[b].offerNumberInQuotation
       => offers[a].revision /= offers[b].revision

\* C18: creating a revision from parent P fails and stores no offer and no
\* offer item when the header already has an offer with P's slot and
\* revision P.revision + 1, so that no two offers of a header ever share
\* their (offerNumberInQuotation, revision) pair
C18_RevisionSlotTaken ==
    [][/\ \A actor \in QuoteUsers, h \in DOMAIN headers, P \in DOMAIN offers,
             images \in ImageInputs :
            /\ PostOfferData(actor, h, P, << >>, images)
            /\ \E o \in DOMAIN offers :
                  /\ offers[o].quotationHeaderId = h
                  /\ offers[o].offerNumberInQuotation =
                       offers[P].offerNumberInQuotation
                  /\ offers[o].revision = offers[P].revision + 1
            => /\ last'.res /= "created"
               /\ offers' = offers
               /\ items' = items
       /\ SlotRevisionUnique']_vars


\* the item numbers of the items stored for offer o
NumbersOf(its, o) == {its[i].itemNumber : i \in ItemsOf(its, o)}

\* the items of every offer are numbered 1..N, each number once
DenseNumbers(its) ==
    \A o \in DOMAIN offers :
       /\ NumbersOf(its, o) = 1..Cardinality(ItemsOf(its, o))
       /\ \A a, b \in ItemsOf(its, o) :
             a /= b => its[a].itemNumber /= its[b].itemNumber

\* C19: deleting item k of an offer whose items are numbered 1..N leaves N-1
\* items numbered 1..N-1 in their original relative order, so that after
\* any sequence of offer-item creates and deletes the item numbers of an
\* offer are pairwise distinct and dense
C19_DeleteRenumbers ==
    [][/\ \A actor \in QuoteUsers, o \in DOMAIN offers, i \in DOMAIN items :
            /\ DeleteItem(actor, o, i)
            /\ DenseNumbers(items)
            => LET owner == items[i].quotationOfferId
                   rest == ItemsOf(items, owner) \ {i}
               IN  /\ ItemsOf(items', owner) = rest
                   /\ NumbersOf(items', owner) = 1..Cardinality(rest)
                   /\ \A a, b \in rest :
                         items[a].itemNumber < items[b].itemNumber
                            => items'[a].itemNumber < items'[b].itemNumber
       /\ DenseNumbers(items')]_vars


\* every header whose status is loss or close has a reason
ClosedWithReason(hs) ==
    \A h \in DOMAIN hs :
       hs[h].status.type \in {"loss", "close"}
          => hs[h].status.reason \notin {"", "undef"}

\* C20: over set-status and header update, a header whose status.type is
\* loss or close always has a non-empty reason, and a set-status request
\* with type loss or close and no reason fails and changes neither the
\* header nor any offer item
C20_LossNeedsReason ==
    [][/\ \A actor \in QuoteUsers, h \in DOMAIN headers,
             type \in {"loss", "close"}, sel \in {NoId} \cup DOMAIN offers,
             selItems \in SelectionInputs :
            SetStatus(actor, h, type, "", sel, selItems)
               => /\ last'.res /= "ok"
                  /\ headers' = headers
                  /\ items' = items
       /\ ClosedWithReason(headers')]_vars


\* C21: in every reachable state of every RFQ, isApproved is true if and
\* only if status = approved
C21_IsApprovedFollowsStatus ==
    \A r \in DOMAIN rfqs :
       rfqs[r].isApproved <=> (rfqs[r].status = "approved")

\* C22: when a notification save fails during RFQ create, approve or
\* reject, the request still answers success, the RFQ change stays, and every
\* notification of the request whose save does not fail is saved
C22_NotificationBestEffort ==
    [][/\ \A actor \in Users, r \in 1..FlowRfqs, notes \in NotesInputs,
          fails \in FailureInputs :
          (/\ fails /= {}
           /\ ApproveRfqNotify(actor, r, notes, fails)
           /\ rfqs' /= rfqs)
          => /\ last'.res = "ok"
             /\ rfqs'[r].status = "approved"
             /\ ids'.notification - ids.notification
                  = Cardinality((1..2) \ fails)
       /\ \A actor \in Users, r \in 1..FlowRfqs, notes \in NotesInputs,
             fails \in FailureInputs :
             (/\ 1 \in fails
              /\ RejectRfqNotify(actor, r, notes, fails)
              /\ rfqs' /= rfqs)
             => /\ last'.res = "ok"
                /\ rfqs'[r].status = "rejected"
       /\ \A actor \in Users, approver \in {"u2", "u3"},
             creator \in {"u2", "u3"}, itemData \in RfqItemPayloads,
             fails \in FailureInputs :
             (/\ 1 \in fails
              /\ PostRfqNotify(actor, approver, creator, itemData, fails))
             => /\ last'.res = "ok"
                /\ DOMAIN rfqs' /= DOMAIN rfqs]_vars

\* C23: the RFQ list returns exactly the RFQs matching the status filter of
\* which the actor is the requester, or the approver while holding
\* approve_rfq, or the quotation creator while holding quotation_create
C23_ListShowsEveryRelationship ==
    [][\A actor \in Users, status \in StatusFilters :
          ListRfqs(actor, status)
          => last'.data =
               { r \in DOMAIN rfqs :
                   /\ HasAccess(r, actor)
                   /\ (status /= "" => rfqs[r].status = status) }]_vars

\* the actor is the creator, requester or approver of header h, or the
\* requester or approver of an RFQ linked to it
RelatedToQuotation(h, actor) ==
    \/ actor \in {headers[h].creatorId, headers[h].requesterId,
                  headers[h].approverId}
    \/ \E r \in DOMAIN rfqs :
          /\ rfqs[r].quotationId = h
          /\ actor \in {rfqs[r].requesterId, rfqs[r].approverId}

\* C24: for an actor without a view-all, admin or manager permission who
\* is not related to a quotation, no read returns the quotation's data and no
\* mutating request on it is applied
C24_UnrelatedActorShutOut ==
    [][\A actor \in Users, h \in DOMAIN headers :
          ~RelatedToQuotation(h, actor)
          => /\ GetQuotation(actor, h) => last'.res /= "ok"
             /\ \A data \in HeaderUpdates :
                   PutHeader(actor, h, data) => headers' = headers]_vars

\* the images that were uploaded and are no longer stored: the orphan
\* cleanup deleted them
CleanupDeleted == (1..ids.image) \ imageDocs

\* a deletion request for offer o is under way
BeingDeleted(o) ==
    \E p \in Procs : /\ pc[p] \in {"doFind", "doUsed", "doImages", "doItems",
                                   "doOffer"}
                     /\ loc[p].offer = o

\* C25: no offer that exists and is not in the course of being deleted
\* holds in notesImages an image that the orphan cleanup has deleted
C25_NoOfferHoldsDeletedImage ==
    \A o \in DOMAIN offers :
       ~BeingDeleted(o) =>
          \A k \in 1..Len(offers[o].notesImages) :
             offers[o].notesImages[k] \notin CleanupDeleted

\* C26: no request changes the rfqNumber of an RFQ or the quotationNumber
\* of a quotation header that exists already, whatever its payload carries
C26_NumbersImmutable ==
    [][/\ \A r \in (DOMAIN rfqs) \cap (DOMAIN rfqs') :
             rfqs'[r].rfqNumber = rfqs[r].rfqNumber
       /\ \A h \in (DOMAIN headers) \cap (DOMAIN headers') :
             headers'[h].quotationNumber = headers[h].quotationNumber]_vars

\* C27: once the item requests that ran concurrently on an offer have all
\* completed, the cached totals of the offer equal the values derived from
\* its items
C27_TotalsAfterConcurrentItems ==
    (\A p \in Procs : Idle(p)) => \A o \in DOMAIN offers : CacheMatches(o)

\* two offers of one header share their slot only within one lineage
SlotsFollowLineage ==
    \A a, b \in DOMAIN offers :
       /\ offers[a].quotationHeaderId = offers[b].quotationHeaderId
       /\ offers[a].offerNumberInQuotation = offers[b].offerNumberInQuotation
       => offers[a].lineage = offers[b].lineage

\* C28: under creations of originals and revisions and deletions of
\* offers, two offers of a header with the same offerNumberInQuotation belong
\* to the same lineage, and a newly created original never gets a slot that
\* an existing offer of the header carries
C28_SlotPerLineage ==
    [][/\ SlotsFollowLineage'
       /\ \A actor \in QuoteUsers, h \in DOMAIN headers, images \in ImageInputs :
             PostOfferData(actor, h, NoId, << >>, images)
             /\ last'.res = "created"
             => \A o \in OffersUnder(h) :
                   offers[o].offerNumberInQuotation
                     /= offers'[last'.offer].offerNumberInQuotation]_vars

\* C29: after any sequence of createRFQItem, updateRFQItem and
\* deleteRFQItem calls, the item numbers of every RFQ's items are pairwise
\* distinct and are exactly 1..N
C29_RfqItemNumbersDense ==
    \A r \in DOMAIN rfqs :
       /\ {rfqItems[i].itemNumber : i \in RfqItemsOf(r)}
            = 1..Cardinality(RfqItemsOf(r))
       /\ \A a, b \in RfqItemsOf(r) :
             a /= b => rfqItems[a].itemNumber /= rfqItems[b].itemNumber

\* C30: of every offer item, isAccepted is true exactly when acceptedAt
\* is set and exactly when acceptedBy is set
C30_AcceptanceFieldsAgree ==
    \A i \in DOMAIN items :
       /\ items[i].isAccepted <=> (items[i].acceptedAt /= NoTime)
       /\ items[i].isAccepted <=> (items[i].acceptedBy /= NoUser)

====
